---------------------------- MODULE Spec2Model ----------------------------
(***************************************************************************)
(* Model of the wallet transaction negotiation engine                      *)
(* (src/wallet/wallet_transaction.cpp): one SimpleTransaction, its         *)
(* parameter bag and the coins of the wallet store, driven by Update(),    *)
(* Cancel() and the events the gateway delivers.                           *)
(*                                                                         *)
(* A parameter of the bag is <<>> when absent and <<v>> when present.      *)
(* Every operation records what it did, in order, in the trace ev; pre is  *)
(* the Status, State and coins the operation started from.                 *)
(*                                                                         *)
(* A second specification, SpecStratum, models the stratum server           *)
(* (src/pow/stratum_server.cpp): the Server object srv, the streams whose   *)
(* writes fail, and what the last call on the server did (sop, sev).        *)
(* SpecListener follows the server from its construction: the listener,    *)
(* its restart timer and the peers; SpecListenerFair adds the fairness of   *)
(* the timer. SpecAcl models the server's access control list and its key   *)
(* file (file; loaded is what the file held when the list was last read).   *)
(***************************************************************************)
EXTENDS Integers, Sequences, FiniteSets, TLC

VARIABLES bag, coins, kid, tip, regPending, confPending, peerKnows, received,
          lastOp, pre, ev

VARIABLES srv, broken, found, unanswered, sop, sev, file, loaded

\* the variables of the wallet transaction and those of the stratum server
wvars == <<bag, coins, kid, tip, regPending, confPending, peerKnows, received,
           lastOp, pre, ev>>

svars == <<srv, broken, found, unanswered, sop, sev, file, loaded>>

vars == <<wvars, svars>>

---------------------------------------------------------------------------
(* Bounds of the model *)

\* highest chain tip the model lets the chain reach
MaxTip == 2

\* number of coins the wallet may receive from outside the transaction
MaxReceived == 1

\* number of calls of one job's onFound callback the model follows
MaxFound == 2

\* highest modification time of the key file, and its largest number of lines
MaxMtime == 2

MaxLines == 2

---------------------------------------------------------------------------
(* Program constants *)

\* BaseTransaction::s_ProtoVersion
s_ProtoVersion == 1

\* beam::MaxHeight, the default of Coin::m_maturity / m_confirmHeight and of
\* TxBuilder::m_MaxHeight: larger than every height of the model
MaxHeight == 1000000

\* Rules::get().Maturity.Std, the standard maturity window
MaturityStd == 2

\* the MaxHeight parameter the transaction is created (or invited) with
TxMaxHeight == 1

\* Amount and Fee parameters of the transaction
TxAmount == 3

TxFee == 1

\* the AmountList of a transaction that splits TxAmount into two outputs
SplitAmounts == <<1, 2>>

\* first identifier the store gives to a coin it stores
FirstKid == 10

TxID == "tx"

OtherTx == "other"

NoTx == "none"

Params == {"Status", "State", "IsSender", "IsInitiator", "MyID", "PeerID",
           "MyAddressID", "Amount", "AmountList", "Fee", "MinHeight", "MaxHeight", "Change",
           "Inputs",
           "Outputs", "Offset", "BlindingExcess", "MyNonce",
           "PeerProtoVersion", "PeerPublicExcess", "PeerPublicNonce",
           "PeerSignature", "PeerInputs", "PeerOutputs", "PeerOffset",
           "PaymentConfirmation", "KernelID", "KernelProofHeight",
           "TransactionRegistered", "FailureReason"}

\* wallet IDs whose address has m_OwnID set in this wallet
OwnAddresses == {"me", "me2"}

EmptyBag == [p \in Params |-> <<>>]

---------------------------------------------------------------------------
(* The wallet store: coins *)

Coin(id, value, status, spentTx) ==
    [id |-> id, value |-> value, status |-> status, isChange |-> FALSE,
     createTxId |-> NoTx, spentTxId |-> spentTx,
     confirmHeight |-> 0, maturity |-> 0]

\* a wallet that can pay TxAmount + TxFee, and one that cannot; both hold a
\* coin that another transaction is spending
RichCoins == {Coin(1, 4, "Available", NoTx), Coin(2, 2, "Available", NoTx),
              Coin(3, 5, "Outgoing", OtherTx)}

PoorCoins == {Coin(1, 2, "Available", NoTx), Coin(3, 5, "Outgoing", OtherTx)}

RECURSIVE SumValues(_)
SumValues(cs) ==
    IF cs = {} THEN 0
    ELSE LET c == CHOOSE x \in cs : TRUE
         IN  c.value + SumValues(cs \ {c})

\* IWalletDB::selectCoins(amount, lock = true): the sets of coins a call may
\* return. The policy is unspecified: any set of Available coins that covers
\* the amount, or the empty set when the Available coins do not cover it.
selectCoins(cs, amount) ==
    LET avail == {c \in cs : c.status = "Available"}
        covers(S) == SumValues(S) >= amount
        good == {S \in SUBSET avail : S # {} /\ covers(S)}
    IN  IF good = {} THEN {{}} ELSE good

\* IWalletDB::rollbackTx(txId): inputs of the tx go back to Available and
\* are no longer tied to it, outputs the tx created and that are still
\* Incoming are removed
rollbackTx(cs, txId) ==
    {IF c.spentTxId = txId /\ c.status = "Outgoing"
        THEN [c EXCEPT !.status = "Available", !.spentTxId = NoTx]
        ELSE c
     : c \in {x \in cs : ~(x.createTxId = txId /\ x.status = "Incoming")}}

---------------------------------------------------------------------------
(* Parameter bag and trace helpers; s is the working state of one call:     *)
(* [bag, coins, kid, tip, ev]                                              *)

Has(s, p) == s.bag[p] # <<>>

Val(s, p) == s.bag[p][1]

\* BaseTransaction::GetParameter with a default for an absent parameter
GetOr(s, p, dflt) == IF Has(s, p) THEN Val(s, p) ELSE dflt

SetParameter(s, p, v) == [s EXCEPT !.bag[p] = <<v>>]

Emit(s, a, b, c) == [s EXCEPT !.ev = Append(@, <<a, b, c>>)]

BoolStr(b) == IF b THEN "true" ELSE "false"

---------------------------------------------------------------------------
(* BaseTransaction *)

\* GetMandatoryParameter<T> throws TransactionFailedException when the
\* parameter is absent: the reason and notify flag it throws with
MandatoryFailure == [reason |-> "FailedToGetParameter", notify |-> TRUE]

\* the default of OnFailed's notify argument (the calls that pass no flag)
DefaultNotify == FALSE

NoThrow == <<>>

Throw(reason, notify) == <<[reason |-> reason, notify |-> notify]>>

IsInitiator(s) == Val(s, "IsInitiator")

get_PeerVersion(s) == GetOr(s, "PeerProtoVersion", 0)

\* INegotiatorGateway::get_tip: false while no tip is known (tip 0)
GetTip(s) == s.tip > 0

\* IsSelfTx that takes every peer for a foreign one
IsSelfTx_NeverOwn(s) == Val(s, "PeerID") \in {}

\* SimpleTransaction::IsSelfTx: the peer address is one of our own
IsSelfTx(s) == Val(s, "PeerID") \in OwnAddresses

GetState(s) == GetOr(s, "State", "Initial")

\* BaseTransaction::SendTxParameters: the message goes out only when MyID
\* and PeerID are both in the bag
CanSend(s) == Has(s, "MyID") /\ Has(s, "PeerID")

SendTxParameters(s, kind, detail) ==
    IF CanSend(s) THEN Emit(s, "send", kind, detail) ELSE s

\* BaseTransaction::UpdateTxDescription (ModifyTime is not modelled)
UpdateTxDescription(s, status) ==
    Emit(SetParameter(s, "Status", status), "status", status, "")

RollbackTx(s) ==
    Emit([s EXCEPT !.coins = rollbackTx(@, TxID)], "rollbackTx", "", "")

on_tx_completed(s) == Emit(s, "on_tx_completed", "", "")

\* NotifyFailure that sends whatever the Status is
NotifyFailure_AnyStatus(s, reason) ==
    SendTxParameters(s, "FailureReason", reason)

NotifyFailure(s, reason) ==
    IF GetOr(s, "Status", "Failed") \in {"Pending", "InProgress"}
    THEN SendTxParameters(s, "FailureReason", reason)
    ELSE s

\* OnFailed without the rollback
OnFailed_NoRollback(s, reason, notify) ==
    LET s0 == Emit(s, "OnFailed", reason, BoolStr(notify))
        s1 == IF notify THEN NotifyFailure(s0, reason) ELSE s0
        s2 == UpdateTxDescription(s1, IF reason = "Cancelled" THEN "Cancelled"
                                                              ELSE "Failed")
    IN  on_tx_completed(s2)

\* OnFailed that writes the Status before it notifies the peer
OnFailed_StatusFirst(s, reason, notify) ==
    LET s0 == Emit(s, "OnFailed", reason, BoolStr(notify))
        s1 == UpdateTxDescription(s0, IF reason = "Cancelled" THEN "Cancelled"
                                                              ELSE "Failed")
        s2 == IF notify THEN NotifyFailure(s1, reason) ELSE s1
    IN  on_tx_completed(RollbackTx(s2))

OnFailed(s, reason, notify) ==
    LET s0 == Emit(s, "OnFailed", reason, BoolStr(notify))
        s1 == IF notify THEN NotifyFailure(s0, reason) ELSE s0
        s2 == UpdateTxDescription(s1, IF reason = "Cancelled" THEN "Cancelled"
                                                              ELSE "Failed")
    IN  on_tx_completed(RollbackTx(s2))

\* ConfirmKernel that leaves the Status as it is
ConfirmKernel_StatusKept(s) == Emit(s, "confirm_kernel", "", "")

\* BaseTransaction::ConfirmKernel
ConfirmKernel(s) ==
    Emit(UpdateTxDescription(s, "Registered"), "confirm_kernel", "", "")

CompleteTx(s) == on_tx_completed(UpdateTxDescription(s, "Completed"))

GetUnconfirmedOutputs(s) ==
    {c \in s.coins : \/ c.createTxId = TxID /\ c.status = "Incoming"
                     \/ c.spentTxId = TxID /\ c.status = "Outgoing"}

\* CheckExternalFailures that has OnFailed notify the peer
CheckExternalFailures_Notify(s) ==
    IF Has(s, "FailureReason") /\ Has(s, "Status")
       /\ Val(s, "Status") = "InProgress"
    THEN [s |-> OnFailed(s, Val(s, "FailureReason"), TRUE),
          hit |-> TRUE, thrown |-> NoThrow]
    ELSE [s |-> s, hit |-> FALSE, thrown |-> NoThrow]

\* BaseTransaction::CheckExternalFailures: [s, hit, thrown]
CheckExternalFailures(s) ==
    IF Has(s, "FailureReason")
    THEN IF ~Has(s, "Status")
         THEN [s |-> s, hit |-> FALSE,
               thrown |-> Throw(MandatoryFailure.reason, MandatoryFailure.notify)]
         ELSE IF Val(s, "Status") = "InProgress"
              THEN [s |-> OnFailed(s, Val(s, "FailureReason"), DefaultNotify),
                    hit |-> TRUE, thrown |-> NoThrow]
              ELSE [s |-> s, hit |-> FALSE, thrown |-> NoThrow]
    ELSE [s |-> s, hit |-> FALSE, thrown |-> NoThrow]

\* CheckExpired that spares a transaction whose Status is Registered
CheckExpired_SparesRegistered(s) ==
    IF /\ Has(s, "Status")
       /\ Val(s, "Status") \notin {"Completed", "Registered"}
       /\ GetTip(s)
       /\ s.tip > GetOr(s, "MaxHeight", MaxHeight)
    THEN [s |-> OnFailed(Emit(s, "expired", "", ""), "TransactionExpired",
                         DefaultNotify),
          thrown |-> NoThrow]
    ELSE [s |-> s, thrown |-> NoThrow]

\* CheckExpired that has OnFailed notify the peer
CheckExpired_Notify(s) ==
    IF /\ Has(s, "Status")
       /\ Val(s, "Status") # "Completed"
       /\ GetTip(s)
       /\ s.tip > GetOr(s, "MaxHeight", MaxHeight)
    THEN [s |-> OnFailed(Emit(s, "expired", "", ""), "TransactionExpired", TRUE),
          thrown |-> NoThrow]
    ELSE [s |-> s, thrown |-> NoThrow]

\* BaseTransaction::CheckExpired: [s, thrown]
CheckExpired(s) ==
    IF ~Has(s, "Status")
    THEN [s |-> s,
          thrown |-> Throw(MandatoryFailure.reason, MandatoryFailure.notify)]
    ELSE IF /\ Val(s, "Status") # "Completed"
            /\ GetTip(s)
            /\ s.tip > GetOr(s, "MaxHeight", MaxHeight)
         THEN [s |-> OnFailed(Emit(s, "expired", "", ""), "TransactionExpired",
                              DefaultNotify),
               thrown |-> NoThrow]
         ELSE [s |-> s, thrown |-> NoThrow]

\* Cancel that sends FailureReason = Cancelled whatever the Status is
CancelTx_AlwaysNotifies(s) ==
    IF GetOr(s, "Status", "Failed") = "Pending"
    THEN Emit([s EXCEPT !.bag = EmptyBag], "deleteTx", "", "")
    ELSE LET s1 == SendTxParameters(s, "FailureReason", "Cancelled")
             s2 == UpdateTxDescription(s1, "Cancelled")
         IN  on_tx_completed(RollbackTx(s2))

\* BaseTransaction::Cancel
CancelTx(s) ==
    IF GetOr(s, "Status", "Failed") = "Pending"
    THEN Emit([s EXCEPT !.bag = EmptyBag], "deleteTx", "", "")
    ELSE LET s1 == NotifyFailure(s, "Cancelled")
             s2 == UpdateTxDescription(s1, "Cancelled")
         IN  on_tx_completed(RollbackTx(s2))

---------------------------------------------------------------------------
(* TxBuilder *)

\* the kernel the builder signs: fee, height window and the excess of the
\* peer that is added to the own one (StoreKernelID stores its ID)
KernelOf(s) ==
    [fee |-> Val(s, "Fee"), maxHeight |-> GetOr(s, "MaxHeight", MaxHeight),
     peerExcess |-> GetOr(s, "PeerPublicExcess", "zero")]

StoreKernelID(s) == SetParameter(s, "KernelID", KernelOf(s))

GetInitialTxParams(s) == Has(s, "BlindingExcess") /\ Has(s, "Offset")

\* TxBuilder::CreateOutput: a new Incoming coin of the tx in the store
CreateOutput(s, amount, bChange) ==
    [s EXCEPT !.coins = @ \cup {[id |-> s.kid, value |-> amount,
                                 status |-> "Incoming", isChange |-> bChange,
                                 createTxId |-> TxID, spentTxId |-> NoTx,
                                 confirmHeight |-> MaxHeight,
                                 maturity |-> MaxHeight]},
              !.kid = @ + 1]

\* UpdateImpl, lines 295-299: the AmountList parameter, or the one Amount
GetAmountList(s) == GetOr(s, "AmountList", <<GetOr(s, "Amount", 0)>>)

RECURSIVE SumSeq(_)
SumSeq(q) == IF q = <<>> THEN 0 ELSE Head(q) + SumSeq(Tail(q))

\* TxBuilder::GetAmount: the sum of the amount list
GetAmount(s) == SumSeq(GetAmountList(s))

\* the parameters UpdateImpl reads with GetMandatoryParameter
MandatoryParams(s) ==
    {"IsSender", "PeerID", "Fee", "IsInitiator"}
        \cup (IF Has(s, "AmountList") THEN {} ELSE {"Amount"})

\* Amount is an unsigned integer (uint64_t): the amounts of the model are
\* small, and its arithmetic wraps at AmountModulus
AmountModulus == 65536

\* SelectInputs that takes the fee off the change twice
SelectInputs_FeeTwice(s, sel) ==
    LET ids == {c.id : c \in sel}
        change == (SumValues(sel) - (GetAmount(s) + 2 * Val(s, "Fee")))
                      % AmountModulus
        locked == {IF c.id \in ids
                      THEN [c EXCEPT !.status = "Outgoing", !.spentTxId = TxID]
                      ELSE c : c \in s.coins}
        s1 == Emit([s EXCEPT !.coins = locked], "selectCoins", "", "")
    IN  SetParameter(SetParameter(SetParameter(s1, "Change", change),
                                  "Inputs", ids), "Offset", "offset")

\* TxBuilder::SelectInputs for a non-empty result sel of selectCoins
SelectInputs(s, sel) ==
    LET ids == {c.id : c \in sel}
        change == (SumValues(sel) - (GetAmount(s) + Val(s, "Fee")))
                      % AmountModulus
        locked == {IF c.id \in ids
                      THEN [c EXCEPT !.status = "Outgoing", !.spentTxId = TxID]
                      ELSE c : c \in s.coins}
        s1 == Emit([s EXCEPT !.coins = locked], "selectCoins", "", "")
    IN  SetParameter(SetParameter(SetParameter(s1, "Change", change),
                                  "Inputs", ids), "Offset", "offset")

AddChangeOutput(s) ==
    IF Val(s, "Change") = 0 THEN s ELSE CreateOutput(s, Val(s, "Change"), TRUE)

\* TxBuilder::FinalizeOutputs: the outputs created since kid0 join m_Outputs
FinalizeOutputs(s, kid0) ==
    SetParameter(SetParameter(s, "Outputs",
                              GetOr(s, "Outputs", {}) \cup (kid0 .. s.kid - 1)),
                 "Offset", "offset")

\* ECC::GenRandom: a value that no earlier call has returned (the draws are
\* numbered; the nonce in the bag, if any, is the latest draw)
GenRandom(s) ==
    <<"random", 1 + (IF Has(s, "MyNonce") THEN Val(s, "MyNonce")[2] ELSE 0)>>

\* the blinding excess CreateKernel derives from the key index it allocates
\* (AllocateKidRange(1), type KerW)
DeriveExcess(s) == <<"KerW", s.kid>>

\* CreateKernel that does not store the BlindingExcess it derived
CreateKernel_ExcessNotStored(s) ==
    LET s1 == IF Has(s, "BlindingExcess") THEN s ELSE [s EXCEPT !.kid = @ + 1]
    IN  IF Has(s1, "MyNonce") THEN s1
        ELSE SetParameter(s1, "MyNonce", GenRandom(s1))

\* CreateKernel that draws a new MyNonce on every call
CreateKernel_FreshNonce(s) ==
    LET s1 == IF Has(s, "BlindingExcess") THEN s
              ELSE SetParameter([s EXCEPT !.kid = @ + 1],
                                "BlindingExcess", DeriveExcess(s))
    IN  SetParameter(s1, "MyNonce", GenRandom(s1))

\* TxBuilder::CreateKernel: BlindingExcess and MyNonce are stored once, the
\* excess derived from a newly allocated key index and the nonce drawn at
\* random
CreateKernel(s) ==
    LET s1 == IF Has(s, "BlindingExcess") THEN s
              ELSE SetParameter([s EXCEPT !.kid = @ + 1],
                                "BlindingExcess", DeriveExcess(s))
    IN  IF Has(s1, "MyNonce") THEN s1
        ELSE SetParameter(s1, "MyNonce", GenRandom(s1))

GetPeerPublicExcessAndNonce(s) ==
    Has(s, "PeerPublicExcess") /\ Has(s, "PeerPublicNonce")

GetPeerSignature(s) == Has(s, "PeerSignature")

GetPeerInputsAndOutputs(s) ==
    Has(s, "PeerInputs") \/ (Has(s, "PeerOutputs") /\ Has(s, "PeerOffset"))

SignPartial(s) == StoreKernelID(s)

FinalizeSignature(s) == Emit(StoreKernelID(s), "FinalizeSignature", "", "")

\* a partial signature names the message, public nonce and public excess it
\* was made for; the all-zero signature of an absent PeerSignature
ZeroSig == [msg |-> [fee |-> 0, maxHeight |-> 0, peerExcess |-> "zero"],
            nonce |-> "zero", excess |-> "zero"]

PartialSig(msg, nonce, excess) == [msg |-> msg, nonce |-> nonce, excess |-> excess]

\* Signature::IsValidPartial(msg, pubNonce, pubExcess)
IsValidPartial(sig, msg, nonce, excess) ==
    \/ sig = ZeroSig /\ nonce = "zero" /\ excess = "zero"
    \/ sig = PartialSig(msg, nonce, excess)

IsPeerSignatureValid(s) ==
    IsValidPartial(GetOr(s, "PeerSignature", ZeroSig), KernelOf(s),
                   GetOr(s, "PeerPublicNonce", "zero"),
                   GetOr(s, "PeerPublicExcess", "zero"))

\* PaymentConfirmation::Sign / IsValid: the signature names the key that
\* made it and the (KernelID, Value, Sender) it was made over
PaymentSig(signer, kernelID, value, sender) ==
    [signer |-> signer, kernelID |-> kernelID, value |-> value, sender |-> sender]

PaymentConfirmationIsValid(sig, pk, kernelID, value, sender) ==
    sig = PaymentSig(pk, kernelID, value, sender)

\* Transaction::IsValid of the transaction CreateTransaction assembles: the
\* peer's inputs and outputs balance and the kernel signature verifies
TransactionIsValid(s) ==
    /\ GetOr(s, "PeerOutputs", "good") = "good"
    /\ IsPeerSignatureValid(s)

---------------------------------------------------------------------------
(* SimpleTransaction *)

SetState(s, state) == Emit(SetParameter(s, "State", state), "state", state, "")

\* TxBuilder::GetPublicExcess and GetPublicNonce: the points of the negated
\* blinding excess (CreateKernel, line 742) and of the nonce derived from
\* MyNonce, which the builder holds whether or not the bag does
GetPublicExcess(s) == <<"G", <<"-", GetOr(s, "BlindingExcess", DeriveExcess(s))>>>>

GetPublicNonce(s) == <<"G", <<"kdf", GetOr(s, "MyNonce", GenRandom(s))>>>>

\* the parameters of the Invitation message
InvitationMsg(s) ==
    [Amount |-> GetAmount(s),
     Fee |-> Val(s, "Fee"),
     MinHeight |-> GetOr(s, "MinHeight", 0),
     MaxHeight |-> GetOr(s, "MaxHeight", MaxHeight),
     IsSender |-> ~Val(s, "IsSender"),
     PeerProtoVersion |-> s_ProtoVersion,
     PeerPublicExcess |-> GetPublicExcess(s),
     PeerPublicNonce |-> GetPublicNonce(s)]

\* an Invitation that tells the peer our own IsSender
SendInvitation_OwnIsSender(s) ==
    IF CanSend(s)
    THEN SendTxParameters(s, "Invitation",
                          [InvitationMsg(s) EXCEPT !.IsSender = Val(s, "IsSender")])
    ELSE OnFailed(s, "FailedToSendParameters", FALSE)

SendInvitation(s) ==
    IF CanSend(s)
    THEN SendTxParameters(s, "Invitation", InvitationMsg(s))
    ELSE OnFailed(s, "FailedToSendParameters", FALSE)

\* the receiver adds its PaymentConfirmation when it knows the IDs, the
\* kernel and the amount and MyID is an own address
ConfirmInvitation(s, sendUtxos) ==
    LET signs == /\ ~Val(s, "IsSender")
                 /\ Has(s, "PeerID") /\ Has(s, "MyID")
                 /\ Has(s, "KernelID") /\ Has(s, "Amount")
                 /\ Val(s, "MyID") \in OwnAddresses
    IN  SendTxParameters(s, "ConfirmInvitation",
                         IF signs THEN "PaymentConfirmation" ELSE "")

ConfirmTransaction(s, sendUtxos) ==
    IF Has(s, "PeerProtoVersion") THEN s
    ELSE SendTxParameters(s, "ConfirmTransaction", BoolStr(sendUtxos))

NotifyTransactionRegistered(s) ==
    SendTxParameters(s, "TransactionRegistered", "true")

\* UpdateImpl, lines 329-339: MyAddressID is taken from the own address
SetMyAddressID(s) ==
    IF ~Has(s, "MyAddressID") /\ Has(s, "MyID") /\ Val(s, "MyID") \in OwnAddresses
    THEN SetParameter(s, "MyAddressID", Val(s, "MyID"))
    ELSE s

\* UpdateImpl, lines 315-318: one receiver output for each amount of the list
RECURSIVE AddOutputs(_, _)
AddOutputs(s, amounts) ==
    IF amounts = <<>> THEN s
    ELSE AddOutputs(CreateOutput(s, Head(amounts), FALSE), Tail(amounts))

\* UpdateImpl, lines 302-327: the first Update selects inputs and creates
\* the outputs (sel is what selectCoins returned, not empty for a sender)
InitialStep(s, sel) ==
    LET s1 == IF Val(s, "IsSender") THEN AddChangeOutput(SelectInputs(s, sel))
              ELSE s
        s2 == IF IsSelfTx(s) \/ ~Val(s, "IsSender")
              THEN AddOutputs(s1, GetAmountList(s))
              ELSE s1
    IN  UpdateTxDescription(FinalizeOutputs(s2, s.kid), "InProgress")

\* UpdateImpl, lines 396-421: the sender's check of the payment confirmation
PaymentConfirmationOk(s) ==
    /\ Has(s, "PeerID") /\ Has(s, "MyID") /\ Has(s, "KernelID")
    /\ Has(s, "Amount") /\ Has(s, "PaymentConfirmation")
    /\ PaymentConfirmationIsValid(Val(s, "PaymentConfirmation"), Val(s, "PeerID"),
                                  Val(s, "KernelID"), Val(s, "Amount"),
                                  Val(s, "MyID"))

\* on a failed check with a peer of version >= s_ProtoVersion OnFailed runs,
\* and the code goes on to FinalizeSignature either way
VerifyPaymentConfirmation(s) ==
    IF ~PaymentConfirmationOk(s)
    THEN LET s1 == Emit(s, "paymentCheckFailed", "", "")
         IN  IF get_PeerVersion(s1) >= s_ProtoVersion
             THEN OnFailed(s1, "InvalidPeerSignature", DefaultNotify)
             ELSE s1
    ELSE s

\* ConfirmOutputs that leaves the inputs of the transaction Outgoing
ConfirmOutputs_InputsNotSpent(s, hProof) ==
    LET saved == {IF c.createTxId = TxID /\ c.status = "Incoming"
                     THEN [c EXCEPT !.status = "Available",
                                    !.confirmHeight = hProof,
                                    !.maturity = hProof + MaturityStd]
                     ELSE c : c \in s.coins}
    IN  CompleteTx(Emit([s EXCEPT !.coins = saved], "save", "", ""))

\* UpdateImpl, lines 463-500: the kernel proof has landed
ConfirmOutputs(s, hProof) ==
    LET unconfirmed == GetUnconfirmedOutputs(s)
        saved == {IF c \in unconfirmed
                     THEN IF c.status = "Outgoing"
                          THEN [c EXCEPT !.status = "Spent"]
                          ELSE [c EXCEPT !.status = "Available",
                                         !.confirmHeight = hProof,
                                         !.maturity = hProof + MaturityStd]
                     ELSE c : c \in s.coins}
    IN  CompleteTx(Emit([s EXCEPT !.coins = saved], "save", "", ""))

\* AfterRegistration that confirms the coins as soon as the transaction is
\* registered, without waiting for the kernel proof
AfterRegistration_NoProofNeeded(s, txState) ==
    IF ~Val(s, "TransactionRegistered")
    THEN OnFailed(s, "FailedToRegister", TRUE)
    ELSE ConfirmOutputs(s, GetOr(s, "KernelProofHeight", 0))

\* UpdateImpl, lines 457-500: TransactionRegistered is in the bag
AfterRegistration(s, txState) ==
    IF ~Val(s, "TransactionRegistered")
    THEN OnFailed(s, "FailedToRegister", TRUE)
    ELSE IF GetOr(s, "KernelProofHeight", 0) = 0
         THEN LET s1 == IF txState = "Registration" /\ ~Has(s, "PeerProtoVersion")
                        THEN NotifyTransactionRegistered(s)
                        ELSE s
              IN  ConfirmKernel(SetState(s1, "KernelConfirmation"))
         ELSE ConfirmOutputs(s, Val(s, "KernelProofHeight"))

\* UpdateImpl, lines 442-454: build, validate and register the transaction
RegisterTx(s) ==
    IF ~TransactionIsValid(s)
    THEN OnFailed(Emit(s, "transactionInvalid", "", ""), "InvalidTransaction", TRUE)
    ELSE SetState(Emit(s, "register_tx", "", ""), "Registration")

\* UpdateImpl, lines 423-501
Finalize(s0, txState, hasPeersInputsAndOutputs) ==
    LET s == FinalizeSignature(s0)
    IN  IF ~Has(s, "TransactionRegistered")
        THEN IF ~IsSelfTx(s) /\ (~hasPeersInputsAndOutputs \/ IsInitiator(s))
             THEN LET s1 == IF txState = "Invitation"
                            THEN SetState(ConfirmTransaction(
                                     UpdateTxDescription(s, "Registered"),
                                     ~hasPeersInputsAndOutputs), "PeerConfirmation")
                            ELSE s
                  IN  IF ~hasPeersInputsAndOutputs THEN s1 ELSE RegisterTx(s1)
             ELSE RegisterTx(s)
        ELSE AfterRegistration(s, txState)

\* VerifyAndFinalize that fails on a bad peer signature without notifying
VerifyAndFinalize_Silent(s, txState, hasPeersInputsAndOutputs) ==
    IF IsInitiator(s) /\ ~IsPeerSignatureValid(s)
    THEN OnFailed(Emit(s, "peerSignatureInvalid", "", ""),
                  "InvalidPeerSignature", FALSE)
    ELSE LET s1 == IF ~IsSelfTx(s) /\ Val(s, "IsSender") /\ IsInitiator(s)
                   THEN VerifyPaymentConfirmation(s)
                   ELSE s
         IN  Finalize(s1, txState, hasPeersInputsAndOutputs)

\* UpdateImpl, lines 388-423
VerifyAndFinalize(s, txState, hasPeersInputsAndOutputs) ==
    IF IsInitiator(s) /\ ~IsPeerSignatureValid(s)
    THEN OnFailed(Emit(s, "peerSignatureInvalid", "", ""),
                  "InvalidPeerSignature", TRUE)
    ELSE LET s1 == IF ~IsSelfTx(s) /\ Val(s, "IsSender") /\ IsInitiator(s)
                   THEN VerifyPaymentConfirmation(s)
                   ELSE s
         IN  Finalize(s1, txState, hasPeersInputsAndOutputs)

\* AnswerInvitation that takes the new flow whatever the peer's version
AnswerInvitation_AlwaysNewFlow(s, hasPeersInputsAndOutputs) ==
    LET s1 == ConfirmInvitation(UpdateTxDescription(s, "Registered"),
                                ~hasPeersInputsAndOutputs)
    IN  ConfirmKernel(SetState(SetParameter(s1, "TransactionRegistered", TRUE),
                               "KernelConfirmation"))

\* UpdateImpl, lines 356-386: the invited party answers the invitation
AnswerInvitation(s, hasPeersInputsAndOutputs) ==
    LET s1 == ConfirmInvitation(UpdateTxDescription(s, "Registered"),
                                ~hasPeersInputsAndOutputs)
    IN  IF Has(s1, "PeerProtoVersion")
        THEN ConfirmKernel(SetState(SetParameter(s1, "TransactionRegistered", TRUE),
                                    "KernelConfirmation"))
        ELSE SetState(s1, "InvitationConfirmation")

\* UpdateImpl, lines 329-501
Negotiate(s0, txState) ==
    LET s1 == CreateKernel(SetMyAddressID(s0))
    IN  IF ~IsSelfTx(s1) /\ ~GetPeerPublicExcessAndNonce(s1)
        THEN IF txState = "Initial"
             THEN SetState(SendInvitation(s1), "Invitation")
             ELSE s1
        ELSE LET s2 == SignPartial(s1)
                 hasPeersInputsAndOutputs == GetPeerInputsAndOutputs(s2)
             IN  IF ~IsSelfTx(s2) /\ ~GetPeerSignature(s2)
                 THEN IF txState = "Initial"
                      THEN AnswerInvitation(s2, hasPeersInputsAndOutputs)
                      ELSE IF IsInitiator(s2) THEN s2
                           ELSE VerifyAndFinalize(s2, txState,
                                                  hasPeersInputsAndOutputs)
                 ELSE VerifyAndFinalize(s2, txState, hasPeersInputsAndOutputs)

\* UpdateImpl, lines 302-308: the Update reaches builder.SelectInputs()
CallsSelectInputs(s) ==
    /\ \A p \in MandatoryParams(s) : Has(s, p)
    /\ ~GetInitialTxParams(s) /\ GetState(s) = "Initial"
    /\ Val(s, "IsSender")

\* UpdateImpl that goes on with an empty selection of inputs
UpdateImpl_EmptySelection(s, sel) ==
    IF \E p \in MandatoryParams(s) : ~Has(s, p)
    THEN [s |-> s,
          thrown |-> Throw(MandatoryFailure.reason, MandatoryFailure.notify)]
    ELSE LET txState == GetState(s)
         IN  IF ~GetInitialTxParams(s) /\ txState = "Initial"
             THEN [s |-> Negotiate(InitialStep(s, sel), txState),
                   thrown |-> NoThrow]
             ELSE [s |-> Negotiate(s, txState), thrown |-> NoThrow]

\* SimpleTransaction::UpdateImpl: [s, thrown]. sel is the result of the
\* selectCoins call SelectInputs makes, if it makes one.
UpdateImpl(s, sel) ==
    IF \E p \in MandatoryParams(s) : ~Has(s, p)
    THEN [s |-> s,
          thrown |-> Throw(MandatoryFailure.reason, MandatoryFailure.notify)]
    ELSE LET txState == GetState(s)
         IN  IF ~GetInitialTxParams(s) /\ txState = "Initial"
             THEN IF Val(s, "IsSender") /\ sel = {}
                  THEN [s |-> s, thrown |-> Throw("NoInputs", ~IsInitiator(s))]
                  ELSE [s |-> Negotiate(InitialStep(s, sel), txState),
                        thrown |-> NoThrow]
             ELSE [s |-> Negotiate(s, txState), thrown |-> NoThrow]

\* BaseTransaction::Update
UpdateTx(s, sel) ==
    LET ext == CheckExternalFailures(s)
    IN  IF ext.thrown # NoThrow
        THEN OnFailed(Emit(ext.s, "exception", ext.thrown[1].reason, ""),
                      ext.thrown[1].reason, ext.thrown[1].notify)
        ELSE IF ext.hit THEN ext.s
        ELSE LET impl == UpdateImpl(ext.s, sel)
             IN  IF impl.thrown # NoThrow
                 THEN OnFailed(Emit(impl.s, "exception", impl.thrown[1].reason, ""),
                               impl.thrown[1].reason, impl.thrown[1].notify)
                 ELSE LET exp == CheckExpired(impl.s)
                      IN  IF exp.thrown # NoThrow
                          THEN OnFailed(Emit(exp.s, "exception",
                                             exp.thrown[1].reason, ""),
                                        exp.thrown[1].reason,
                                        exp.thrown[1].notify)
                          ELSE exp.s

---------------------------------------------------------------------------
(* Stratum server (src/pow/stratum_server.cpp). w is the working state of   *)
(* one call: [srv, found, ev]; srv is the Server object:                    *)
(*   connections  _connections: address -> "none" (no entry), "null" (an    *)
(*                entry that holds no Connection), "NotLoggedIn",           *)
(*                "LoggedIn" (the Connection's _loggedIn)                   *)
(*   recentJob    _recentJob: id and the cached Job frame msg ("" = empty)  *)
(*   recentResult _recentResult: id, pow, resultFrom and the onBlockFound   *)
(*                callback, named by the job whose new_job call passed it   *)
(*                ("" = the empty std::function)                            *)
(*   acl          _acl: _enabled and _keys                                  *)
(*   crashed      the process has terminated                                *)

\* peer addresses (Connection ids)
Peers == {"p1", "p2"}

NoPeer == "nobody"

\* the keys _connections can have: the peers' addresses and the value
\* _recentResult.resultFrom has before any Solution
Addrs == Peers \cup {NoPeer}

\* the order in which std::map iterates over _connections
PeerOrder == <<NoPeer, "p1", "p2">>

JobIds == {"J1", "J2"}

\* an API key of the key file, one that is not in it, and one that is too
\* short; a key, like a line of the file, is a sequence of characters
GoodKey == <<"g", "o", "o", "d", "-", "k", "e", "y">>

WrongKey == <<"n", "o", "t", "-", "a", "-", "k", "e", "y">>

ShortKey == <<"s", "h", "o", "r", "t">>

Keys == {GoodKey, WrongKey, ShortKey}

\* the shortest line AccessControl::refresh takes for a key
MinKeyLen == 8

\* the timer intervals, in milliseconds
SERVER_RESTART_INTERVAL == 1000

ACL_REFRESH_INTERVAL == 5000

\* the lines a key file is made of: keys, keys with blanks around them, a
\* short key padded with blanks to the length of a key, an empty line
Pad(line, n) == [i \in 1 .. n |-> " "] \o line \o [i \in 1 .. n |-> " "]

Lines == {GoodKey, ShortKey, Pad(GoodKey, 1), Pad(ShortKey, 2), <<>>}

\* no file at the configured path
NoFile == [exists |-> FALSE, readable |-> FALSE, mtime |-> 0, lines |-> <<>>]

\* the key file: whether it exists and can be opened, its modification
\* time and its lines
KeyFiles ==
    [exists : {TRUE}, readable : BOOLEAN, mtime : 0 .. MaxMtime,
     lines : UNION {[1 .. n -> Lines] : n \in 0 .. MaxLines}]
    \cup {NoFile}

\* the lines of a file, as a set
LinesOf(f) == {f.lines[i] : i \in 1 .. Len(f.lines)}

\* the key file of a server whose file is not looked at: one good key
KeyFile0 == [exists |-> TRUE, readable |-> TRUE, mtime |-> 1, lines |-> <<GoodKey>>]

IsSpace(c) == c \in {" ", "\t", "\r", "\n"}

\* boost::algorithm::trim
RECURSIVE TrimLeft(_)
TrimLeft(line) ==
    IF line # <<>> /\ IsSpace(Head(line)) THEN TrimLeft(Tail(line)) ELSE line

RECURSIVE TrimRight(_)
TrimRight(line) ==
    IF line # <<>> /\ IsSpace(line[Len(line)])
    THEN TrimRight(SubSeq(line, 1, Len(line) - 1))
    ELSE line

trim(line) == TrimRight(TrimLeft(line))

\* the loop of refresh that keeps every line without the length test
RECURSIVE ReadKeys_AnyLength(_, _)
ReadKeys_AnyLength(lines, keys) ==
    IF lines = <<>> THEN keys
    ELSE ReadKeys_AnyLength(Tail(lines), keys \cup {trim(Head(lines))})

\* the loop of AccessControl::refresh, lines 228-234: the keys read so far
\* and the lines still to read
RECURSIVE ReadKeys(_, _)
ReadKeys(lines, keys) ==
    IF lines = <<>> THEN keys
    ELSE LET line == trim(Head(lines))
         IN  ReadKeys(Tail(lines),
                      IF Len(line) < MinKeyLen THEN keys ELSE keys \cup {line})

\* refresh that reads the file whatever its modification time
refresh_NoMtimeTest(acl, f) ==
    IF ~(acl.enabled /\ f.exists) THEN acl
    ELSE [acl EXCEPT !.lastModified = f.mtime,
                     !.keys = ReadKeys(IF f.readable THEN f.lines ELSE <<>>, {})]

\* refresh goes on to read the file f: the ACL is on, the file has a
\* modification time and it is later than _lastModified
Reloads(acl, f) == acl.enabled /\ f.exists /\ f.mtime > acl.lastModified

\* Server::AccessControl::refresh on the key file f; a file that cannot be
\* opened yields no line
refresh(acl, f) ==
    IF ~Reloads(acl, f) THEN acl
    ELSE [acl EXCEPT !.lastModified = f.mtime,
                     !.keys = ReadKeys(IF f.readable THEN f.lines ELSE <<>>, {})]

\* Server::AccessControl::AccessControl
AccessControl(enabled, f) ==
    refresh([enabled |-> enabled, keys |-> {}, lastModified |-> 0], f)

\* what dereferencing an entry that holds no Connection can do: the process
\* dies, or the call goes on as if the Connection had done nothing
NullDeref == {"dies", "survives"}

\* the call notes what it does
SEmit(w, a, b, c) == [w EXCEPT !.ev = Append(@, <<a, b, c>>)]

\* the Server after construction, with the key file f configured or with
\* none: no listener yet, the restart timer set to fire at once and, with a
\* key file, the refresh timer too (a timer is <<>> or <<its delay>>)
Server(aclOn, f) ==
    [connections |-> [p \in Addrs |-> "none"],
     recentJob |-> [id |-> "", msg |-> ""],
     recentResult |-> [id |-> "", pow |-> "", resultFrom |-> NoPeer,
                       onBlockFound |-> ""],
     acl |-> AccessControl(aclOn, f),
     server |-> "none",
     timers |-> [restart |-> <<0>>, acl |-> IF aclOn THEN <<0>> ELSE <<>>],
     crashed |-> FALSE]

\* Server::start_server when the listen socket can be created
start_server_ok(w) ==
    SEmit([w EXCEPT !.srv.server = "listening"], "listens", "", "")

\* Server::start_server when creating the listen socket throws
start_server_fails(w) ==
    SEmit([w EXCEPT !.srv.timers.restart = <<SERVER_RESTART_INTERVAL>>],
          "set_timer", "restart", "")

\* the timer SERVER_RESTART_TIMER fires and calls start_server
start_server(w, ok) ==
    LET w1 == [w EXCEPT !.srv.timers.restart = <<>>]
    IN  IF ok THEN start_server_ok(w1) ELSE start_server_fails(w1)

\* the server with the key file KeyFile0 or none, once it listens
NewServer(aclOn) ==
    start_server([srv |-> Server(aclOn, KeyFile0), found |-> 0, ev |-> <<>>],
                 TRUE).srv

\* the entry of address p holds a Connection
Connected(server, p) == server.connections[p] \in {"NotLoggedIn", "LoggedIn"}

\* Server::AccessControl::check
check(w, key) == ~w.srv.acl.enabled \/ key \in w.srv.acl.keys

\* send_msg without the test of _loggedIn
send_msg_NoLoginTest(w, p, msg, onlyIfLoggedIn, shutdown) ==
    IF p \in broken
    THEN [w |-> w, sent |-> FALSE]
    ELSE LET w1 == SEmit(w, "frame", p, msg)
         IN  [w |-> IF shutdown THEN SEmit(w1, "shutdown", p, "") ELSE w1,
              sent |-> TRUE]

\* Server::Connection::send_msg: [w, sent]
send_msg(w, p, msg, onlyIfLoggedIn, shutdown) ==
    IF onlyIfLoggedIn /\ w.srv.connections[p] # "LoggedIn"
    THEN [w |-> w, sent |-> TRUE]
    ELSE IF p \in broken
         THEN [w |-> w, sent |-> FALSE]
         ELSE LET w1 == SEmit(w, "frame", p, msg)
              IN  [w |-> IF shutdown THEN SEmit(w1, "shutdown", p, "") ELSE w1,
                   sent |-> TRUE]

\* on_bad_peer that takes the listener down with the peer
on_bad_peer_DropsListener(w, p) ==
    SEmit([w EXCEPT !.srv.connections[p] = "none", !.srv.server = "none"],
          "-peer", p, "")

\* Server::on_bad_peer
on_bad_peer(w, p) ==
    SEmit([w EXCEPT !.srv.connections[p] = "none"], "-peer", p, "")

\* on_login that lets every key in
on_login_AnyKey(w, p, key) ==
    LET w1 == [w EXCEPT !.srv.connections[p] = "LoggedIn"]
        r == send_msg(w1, p, w1.srv.recentJob.msg, TRUE, FALSE)
    IN  [w |-> r.w, ok |-> r.sent]

\* Server::on_login: [w, ok]
on_login(w, p, key) ==
    IF check(w, key)
    THEN LET w1 == [w EXCEPT !.srv.connections[p] = "LoggedIn"]
             r == send_msg(w1, p, w1.srv.recentJob.msg, TRUE, FALSE)
         IN  [w |-> r.w, ok |-> r.sent]
    ELSE [w |-> send_msg(w, p, "login_failed", FALSE, TRUE).w, ok |-> FALSE]

\* Server::on_solution up to the call of the callback, lines 126-128
StoreResult(w, p, id, pow) ==
    [w EXCEPT !.srv.recentResult.id = id,
              !.srv.recentResult.pow = pow,
              !.srv.recentResult.resultFrom = p]

\* the call _recentResult.onBlockFound(), line 131, of a callback that is set
CallOnBlockFound(w) ==
    SEmit([w EXCEPT !.found = @ + 1], "onFound", w.srv.recentResult.id,
          w.srv.recentResult.resultFrom)

\* Server::on_solution with a callback set; it returns true
on_solution(w, p, id, pow) == CallOnBlockFound(StoreResult(w, p, id, pow))

\* Server::new_job, lines 158-162: the job goes to the connections from the
\* i-th on; dead collects the peers whose send failed
\* ub is what a dereference of an entry without Connection does
RECURSIVE Broadcast(_, _, _, _)
Broadcast(w, i, dead, ub) ==
    IF i > Len(PeerOrder) THEN [w |-> w, dead |-> dead]
    ELSE LET p == PeerOrder[i]
         IN  IF w.srv.connections[p] = "none" THEN Broadcast(w, i + 1, dead, ub)
             ELSE IF w.srv.connections[p] = "null"
             THEN IF ub = "dies"
                  THEN [w |-> SEmit([w EXCEPT !.srv.crashed = TRUE],
                                    "null_deref", p, ""),
                        dead |-> {}]
                  ELSE Broadcast(SEmit(w, "null_deref", p, ""), i + 1, dead, ub)
             ELSE LET r == send_msg(w, p, w.srv.recentJob.msg, TRUE, FALSE)
                  IN  Broadcast(r.w, i + 1,
                                IF r.sent THEN dead ELSE dead \cup {p}, ub)

\* Server::new_job; found counts the calls of the new callback from now on
new_job(w, id, ub) ==
    LET w1 == [w EXCEPT !.srv.recentJob.id = id,
                        !.srv.recentResult.onBlockFound = id,
                        !.srv.recentJob.msg = id,
                        !.found = 0]
        r == Broadcast(w1, 1, {}, ub)
    IN  [r.w EXCEPT !.srv.connections =
                        [p \in Addrs |-> IF p \in r.dead THEN "none" ELSE @[p]]]

\* Server::solution_result: the frame goes to _connections[resultFrom];
\* operator[] makes an entry without Connection when there is none
solution_result(w, jobID, accepted, ub) ==
    LET msg == (IF accepted THEN "solution_accepted:" ELSE "solution_rejected:")
                  \o jobID
        from == w.srv.recentResult.resultFrom
    IN  IF w.srv.connections[from] \in {"none", "null"}
        THEN SEmit([w EXCEPT !.srv.connections[from] = "null",
                             !.srv.crashed = (ub = "dies")],
                   "null_deref", from, "")
        ELSE send_msg(w, from, msg, TRUE, FALSE).w

\* Server::stop_current
stop_current(w) == [w EXCEPT !.srv.recentJob.id = ""]

\* the stratum variables while only the wallet is looked at
StratumIdle ==
    /\ srv = NewServer(FALSE)
    /\ broken = {}
    /\ found = 0
    /\ unanswered = <<>>
    /\ sop = "new"
    /\ sev = <<>>
    /\ file = KeyFile0
    /\ loaded = LinesOf(KeyFile0)

---------------------------------------------------------------------------
(* The state machine: the transaction as the wallet created it, and one     *)
(* action per call the wallet and the gateway make on it                    *)

Roles == {"initiator", "self", "split", "invitedNew", "invitedOld"}

\* the bag of a transaction the wallet has just created (initiator, self)
\* or has just built from a peer's invitation (invited), before any Update
NewBag(role, isSender) ==
    [p \in Params |->
        CASE p = "Status" -> <<"Pending">>
          [] p = "IsSender" -> <<isSender>>
          [] p = "IsInitiator" -> <<role \in {"initiator", "self", "split"}>>
          [] p = "MyID" -> <<"me">>
          [] p = "PeerID" ->
                <<IF role \in {"self", "split"} THEN "me2" ELSE "peer">>
          [] p = "Amount" -> IF role = "split" THEN <<>> ELSE <<TxAmount>>
          [] p = "AmountList" ->
                IF role = "split" THEN <<SplitAmounts>> ELSE <<>>
          [] p = "Fee" -> <<TxFee>>
          [] p = "MaxHeight" -> <<TxMaxHeight>>
          [] p = "PeerPublicExcess" ->
                IF role \in {"invitedNew", "invitedOld"} THEN <<"PE">> ELSE <<>>
          [] p = "PeerPublicNonce" ->
                IF role \in {"invitedNew", "invitedOld"} THEN <<"PN">> ELSE <<>>
          [] p = "PeerProtoVersion" ->
                IF role = "invitedNew" THEN <<s_ProtoVersion>> ELSE <<>>
          [] OTHER -> <<>>]

Cur == [bag |-> bag, coins |-> coins, kid |-> kid, tip |-> tip, ev |-> <<>>]

HasEv(trace, a) == \E i \in 1 .. Len(trace) : trace[i][1] = a

Sent(trace, kind) ==
    \E i \in 1 .. Len(trace) : trace[i][1] = "send" /\ trace[i][2] = kind

\* the variables after an operation op that started from s0 and ended in r
Finish(op, s0, r) ==
    /\ bag' = r.bag
    /\ coins' = r.coins
    /\ kid' = r.kid
    /\ tip' = r.tip
    /\ ev' = r.ev
    /\ lastOp' = op
    /\ pre' = [status |-> s0.bag["Status"], state |-> GetState(s0),
               coins |-> s0.coins]
    /\ regPending' = (HasEv(r.ev, "register_tx")
                        \/ (regPending /\ op # "RegisterResult"))
    /\ confPending' = (HasEv(r.ev, "confirm_kernel")
                        \/ (confPending /\ op # "KernelProof"))
    /\ peerKnows' = (peerKnows \/ Sent(r.ev, "Invitation"))
    /\ UNCHANGED <<received, svars>>

\* the gateway calls Update() on the state s0 its event has produced
CallUpdate(op, s0) ==
    \E sel \in IF CallsSelectInputs(s0)
                THEN selectCoins(s0.coins, GetAmount(s0) + Val(s0, "Fee"))
                ELSE {{}} :
        Finish(op, s0, UpdateTx(s0, sel))

Init ==
    /\ \E role \in Roles, isSender \in BOOLEAN :
          /\ role \in {"self", "split"} => isSender
          /\ bag = NewBag(role, isSender)
          /\ peerKnows = (role \in {"invitedNew", "invitedOld"})
    /\ coins \in {RichCoins, PoorCoins}
    /\ kid = FirstKid
    /\ tip = 0
    /\ regPending = FALSE
    /\ confPending = FALSE
    /\ received = 0
    /\ lastOp = "new"
    /\ pre = [status |-> <<>>, state |-> "Initial", coins |-> {}]
    /\ ev = <<>>
    /\ StratumIdle

\* Update() with nothing new in the bag
Update == CallUpdate("Update", Cur)

\* Cancel()
Cancel == Finish("Cancel", Cur, CancelTx(Cur))

\* the chain tip advances and the gateway updates the transaction
TipAdvance ==
    /\ tip < MaxTip
    /\ CallUpdate("TipAdvance", [Cur EXCEPT !.tip = tip + 1])

\* the peer's answer to our invitation arrives (its ConfirmInvitation):
\* excess, nonce and partial signature, with or without its protocol
\* version, its inputs and outputs and a payment confirmation
RecvConfirmInvitation ==
    /\ peerKnows
    /\ Has(Cur, "IsInitiator") /\ IsInitiator(Cur) /\ ~IsSelfTx(Cur)
    /\ ~Has(Cur, "PeerPublicExcess")
    /\ \E ver \in {<<>>, <<s_ProtoVersion>>},
          excess \in {"PE", "PX"},
          io \in {<<>>, <<"good">>, <<"bad">>},
          signer \in {"none", "peer", "mallory"} :
          /\ ~Val(Cur, "IsSender") => signer = "none"
          /\ LET b1 == [bag EXCEPT !["PeerProtoVersion"] = ver,
                                   !["PeerPublicExcess"] = <<"PE">>,
                                   !["PeerPublicNonce"] = <<"PN">>,
                                   !["PeerInputs"] = io,
                                   !["PeerOutputs"] = io,
                                   !["PeerOffset"] = io]
                 kernel == KernelOf([Cur EXCEPT !.bag = b1])
                 b2 == [b1 EXCEPT
                          !["PeerSignature"] = <<PartialSig(kernel, "PN", excess)>>,
                          !["PaymentConfirmation"] =
                              IF signer = "none" THEN <<>>
                              ELSE <<PaymentSig(signer, kernel, TxAmount, "me")>>]
             IN  CallUpdate("RecvConfirmInvitation", [Cur EXCEPT !.bag = b2])

\* an initiator of the old flow sends its ConfirmTransaction to us, the
\* invited party: its partial signature, with or without inputs and outputs
RecvConfirmTransaction ==
    /\ Has(Cur, "IsInitiator") /\ ~IsInitiator(Cur)
    /\ ~Has(Cur, "PeerProtoVersion")
    /\ GetState(Cur) # "Initial"
    /\ ~Has(Cur, "PeerSignature")
    /\ \E excess \in {"PE", "PX"}, io \in {<<>>, <<"good">>, <<"bad">>} :
          LET b1 == [bag EXCEPT
                       !["PeerSignature"] = <<PartialSig(KernelOf(Cur), "PN", excess)>>,
                       !["PeerInputs"] = io,
                       !["PeerOutputs"] = io,
                       !["PeerOffset"] = io]
          IN  CallUpdate("RecvConfirmTransaction", [Cur EXCEPT !.bag = b1])

\* an initiator of the old flow tells us it has registered the transaction
RecvTransactionRegistered ==
    /\ Has(Cur, "IsInitiator") /\ ~IsInitiator(Cur)
    /\ ~Has(Cur, "PeerProtoVersion")
    /\ GetState(Cur) # "Initial"
    /\ ~Has(Cur, "TransactionRegistered")
    /\ CallUpdate("RecvTransactionRegistered",
                  [Cur EXCEPT !.bag["TransactionRegistered"] = <<TRUE>>])

\* the peer's FailureReason message arrives
RecvFailureReason ==
    /\ peerKnows
    /\ Has(Cur, "PeerID") /\ ~IsSelfTx(Cur)
    /\ ~Has(Cur, "FailureReason")
    /\ \E reason \in {"Cancelled", "InvalidTransaction"} :
          CallUpdate("RecvFailureReason",
                     [Cur EXCEPT !.bag["FailureReason"] = <<reason>>])

\* the node answers register_tx: the gateway sets TransactionRegistered
RegisterResult ==
    /\ regPending
    /\ \E ok \in BOOLEAN :
          CallUpdate("RegisterResult",
                     [Cur EXCEPT !.bag["TransactionRegistered"] = <<ok>>])

\* the node answers confirm_kernel with a proof: the gateway sets
\* KernelProofHeight
KernelProof ==
    /\ confPending
    /\ ~Has(Cur, "KernelProofHeight")
    /\ \E h \in 1 .. tip :
          CallUpdate("KernelProof",
                     [Cur EXCEPT !.bag["KernelProofHeight"] = <<h>>])

\* the wallet receives a coin that has nothing to do with the transaction
CoinReceived ==
    /\ received < MaxReceived
    /\ received' = received + 1
    /\ coins' = coins \cup {Coin(kid, TxAmount + TxFee, "Available", NoTx)}
    /\ kid' = kid + 1
    /\ lastOp' = "CoinReceived"
    /\ ev' = <<>>
    /\ pre' = [status |-> bag["Status"], state |-> GetState(Cur), coins |-> coins]
    /\ UNCHANGED <<bag, tip, regPending, confPending, peerKnows, svars>>

Next ==
    \/ Update
    \/ Cancel
    \/ TipAdvance
    \/ RecvConfirmInvitation
    \/ RecvConfirmTransaction
    \/ RecvTransactionRegistered
    \/ RecvFailureReason
    \/ RegisterResult
    \/ KernelProof
    \/ CoinReceived

Spec == Init /\ [][Next]_vars

---------------------------------------------------------------------------
(* The stratum server's state machine: one action per call the reactor and  *)
(* the node make on the Server                                              *)

\* the proof of work a Solution carries (its nonce and output)
Pows == {"s1"}

SCur == [srv |-> srv, found |-> found, ev |-> <<>>]

\* the variables after a call op on the server that ended in r; the
\* streams of the Connections the call destroyed or replaced are gone with
\* them
SFinish(op, r) ==
    /\ srv' = r.srv
    /\ found' = r.found
    /\ sev' = r.ev
    /\ sop' = op
    /\ broken' = {q \in broken : /\ Connected(r.srv, q)
                                  /\ ~\E i \in 1 .. Len(r.ev) :
                                         r.ev[i] = <<"+peer", q, "">>}
    /\ UNCHANGED <<wvars, file, loaded>>

\* the wallet variables while only the stratum server is looked at
WalletIdle ==
    /\ bag = EmptyBag
    /\ coins = {}
    /\ kid = FirstKid
    /\ tip = 0
    /\ regPending = FALSE
    /\ confPending = FALSE
    /\ peerKnows = FALSE
    /\ received = 0
    /\ lastOp = "new"
    /\ pre = [status |-> <<>>, state |-> "Initial", coins |-> {}]
    /\ ev = <<>>

InitStratum ==
    /\ WalletIdle
    /\ \E aclOn \in BOOLEAN : srv = NewServer(aclOn)
    /\ broken = {}
    /\ found = 0
    /\ unanswered = <<>>
    /\ sop = "new"
    /\ sev = <<>>
    /\ file = KeyFile0
    /\ loaded = LinesOf(KeyFile0)

\* Server::on_stream_accepted with no error: a new Connection, not logged
\* in, takes the entry of the peer's address
Accept ==
    /\ ~srv.crashed
    /\ srv.server = "listening"
    /\ \E p \in Peers :
          /\ SFinish("Accept", SEmit([SCur EXCEPT !.srv.connections[p] = "NotLoggedIn"],
                                     "+peer", p, ""))
    /\ UNCHANGED unanswered

\* a Login line arrives on a connection; on_stream_data drops the peer when
\* the handler returns false
LoginMsg ==
    /\ ~srv.crashed
    /\ \E p \in Peers, key \in {GoodKey, WrongKey} :
          /\ Connected(srv, p)
          /\ LET r == on_login(SEmit(SEmit(SCur, "recv", p, "Login"),
                                      "api_key", p, key), p, key)
             IN  SFinish("Login", IF r.ok THEN r.w ELSE on_bad_peer(r.w, p))
    /\ UNCHANGED unanswered

\* a Solution line arrives on a connection. Calling an empty onBlockFound
\* throws std::bad_function_call out of the handler: the process terminates,
\* or a caller catches it and the server goes on.
SolutionMsg ==
    /\ ~srv.crashed
    /\ \E p \in Peers, id \in JobIds, pow \in Pows :
          /\ Connected(srv, p)
          /\ LET w == SEmit(SCur, "recv", p, "Solution")
             IN  IF srv.recentResult.onBlockFound = ""
                 THEN /\ \E dies \in BOOLEAN :
                            SFinish("Solution",
                                    SEmit([StoreResult(w, p, id, pow)
                                              EXCEPT !.srv.crashed = dies],
                                          "bad_function_call", p, ""))
                      /\ UNCHANGED unanswered
                 ELSE /\ found < MaxFound
                      /\ SFinish("Solution", on_solution(w, p, id, pow))
                      /\ unanswered' = IF unanswered = <<>> THEN <<id, p>>
                                       ELSE unanswered

\* a read error or a malformed line on a connection: on_stream_data calls
\* on_bad_peer
PeerError ==
    /\ ~srv.crashed
    /\ \E p \in Peers :
          /\ Connected(srv, p)
          /\ SFinish("PeerError", on_bad_peer(SCur, p))
    /\ UNCHANGED unanswered

\* the stream of a connected peer breaks: writes to it fail from now on
StreamBreaks ==
    /\ ~srv.crashed
    /\ \E p \in Peers :
          /\ Connected(srv, p)
          /\ p \notin broken
          /\ broken' = broken \cup {p}
    /\ sop' = "StreamBreaks"
    /\ sev' = <<>>
    /\ UNCHANGED <<srv, found, unanswered, wvars, file, loaded>>

\* the node pushes a job
NewJob ==
    /\ ~srv.crashed
    /\ \E id \in JobIds,
          ub \in IF \E a \in Addrs : srv.connections[a] = "null"
                 THEN NullDeref ELSE {"survives"} :
          SFinish("NewJob", new_job(SEmit(SCur, "new_job", id, ""), id, ub))
    /\ UNCHANGED unanswered

\* the node calls solution_result for a job: to answer the earliest Solution
\* whose onFound it has not answered yet, or on its own
SolutionResult ==
    /\ ~srv.crashed
    /\ \E id \in JobIds, accepted \in BOOLEAN,
          ub \in IF srv.connections[srv.recentResult.resultFrom] \in {"none", "null"}
                 THEN NullDeref ELSE {"survives"} :
          LET answers == unanswered # <<>> /\ unanswered[1] = id
              w == SEmit(SCur, "solution_result", id,
                         IF answers THEN unanswered[2] ELSE NoPeer)
          IN  /\ SFinish("SolutionResult", solution_result(w, id, accepted, ub))
              /\ unanswered' = IF answers THEN <<>> ELSE unanswered

\* the node calls stop_current
StopCurrent ==
    /\ ~srv.crashed
    /\ SFinish("StopCurrent", stop_current(SCur))
    /\ UNCHANGED unanswered

NextStratum ==
    \/ Accept
    \/ LoginMsg
    \/ SolutionMsg
    \/ PeerError
    \/ StreamBreaks
    \/ NewJob
    \/ SolutionResult
    \/ StopCurrent

SpecStratum == InitStratum /\ [][NextStratum]_vars

---------------------------------------------------------------------------
(* The listener: the server from its construction on, the restart timer,    *)
(* accepts that fail, and the peers that connect, log in and get jobs       *)

\* an accept error that sets no timer
on_accept_error_NoTimer(w) == SEmit(w, "accept_error", "", "")

\* Server::on_stream_accepted with an error: restart in a second
on_accept_error(w) ==
    SEmit([w EXCEPT !.srv.timers.restart = <<SERVER_RESTART_INTERVAL>>],
          "set_timer", "restart", "")

InitListener ==
    /\ WalletIdle
    /\ \E aclOn \in BOOLEAN : srv = Server(aclOn, KeyFile0)
    /\ broken = {}
    /\ found = 0
    /\ unanswered = <<>>
    /\ sop = "new"
    /\ sev = <<>>
    /\ file = KeyFile0
    /\ loaded = LinesOf(KeyFile0)

\* the restart timer fires and start_server creates the listen socket
StartServerOk ==
    /\ srv.timers.restart # <<>>
    /\ SFinish("StartServerOk", start_server(SCur, TRUE))
    /\ UNCHANGED unanswered

\* the restart timer fires and start_server cannot create the listen socket
StartServerFails ==
    /\ srv.timers.restart # <<>>
    /\ SFinish("StartServerFails", start_server(SCur, FALSE))
    /\ UNCHANGED unanswered

\* the listener reports an error to on_stream_accepted
AcceptError ==
    /\ srv.server = "listening"
    /\ SFinish("AcceptError", on_accept_error(SCur))
    /\ UNCHANGED unanswered

NextListener ==
    \/ StartServerOk
    \/ StartServerFails
    \/ AcceptError
    \/ Accept
    \/ LoginMsg
    \/ PeerError
    \/ StreamBreaks
    \/ NewJob

SpecListener == InitListener /\ [][NextListener]_vars

\* the reactor fires a timer that is set, and creating the listen socket
\* does not fail for ever
SpecListenerFair ==
    /\ SpecListener
    /\ WF_vars(StartServerOk \/ StartServerFails)
    /\ SF_vars(StartServerOk)

---------------------------------------------------------------------------
(* The access control list and its key file: the refresh timer and what     *)
(* happens to the file between two polls                                    *)

InitAcl ==
    /\ WalletIdle
    /\ \E aclOn \in BOOLEAN, f \in KeyFiles :
          /\ file = f
          /\ srv = Server(aclOn, f)
          /\ loaded = IF Reloads([enabled |-> aclOn, lastModified |-> 0], f)
                      THEN LinesOf(f) ELSE {}
    /\ broken = {}
    /\ found = 0
    /\ unanswered = <<>>
    /\ sop = "new"
    /\ sev = <<>>

\* the key file changes to f outside the server
FileBecomes(f) ==
    /\ file' = f
    /\ UNCHANGED <<srv, loaded, broken, found, unanswered, sop, sev, wvars>>

\* the modification times a write can leave: the clock has moved on, or the
\* write falls within its resolution
WriteTimes == {m \in {file.mtime, file.mtime + 1} : m <= MaxMtime}

\* somebody creates the key file, empty
CreateFile ==
    /\ ~file.exists
    /\ \E m \in 0 .. MaxMtime :
          FileBecomes([exists |-> TRUE, readable |-> TRUE,
                                     mtime |-> m, lines |-> <<>>])

\* somebody appends a line to the key file
AppendLine ==
    /\ file.exists
    /\ Len(file.lines) < MaxLines
    /\ \E l \in Lines, m \in WriteTimes :
          FileBecomes([file EXCEPT !.lines = Append(@, l),
                                                 !.mtime = m])

\* somebody empties the key file
Truncate ==
    /\ file.exists
    /\ file.lines # <<>>
    /\ \E m \in WriteTimes :
          FileBecomes([file EXCEPT !.lines = <<>>, !.mtime = m])

\* somebody sets the modification time of the key file, forward or back
Touch ==
    /\ file.exists
    /\ \E m \in 0 .. MaxMtime :
          m # file.mtime /\ FileBecomes([file EXCEPT !.mtime = m])

\* somebody changes the permissions of the key file
Chmod ==
    /\ file.exists
    /\ FileBecomes([file EXCEPT !.readable = ~@])

\* somebody removes the key file
RemoveFile ==
    /\ file.exists
    /\ FileBecomes(NoFile)

\* Server::refresh_acl: the timer ACL_REFRESH_TIMER fires, the list is
\* refreshed and the timer set again
RefreshAcl ==
    /\ srv.timers.acl # <<>>
    /\ srv' = [srv EXCEPT !.acl = refresh(srv.acl, file),
                          !.timers.acl = <<ACL_REFRESH_INTERVAL>>]
    /\ loaded' = IF Reloads(srv.acl, file) THEN LinesOf(file) ELSE loaded
    /\ sop' = "RefreshAcl"
    /\ UNCHANGED <<file, broken, found, unanswered, sev, wvars>>

NextAcl ==
    \/ CreateFile
    \/ AppendLine
    \/ Truncate
    \/ Touch
    \/ Chmod
    \/ RemoveFile
    \/ RefreshAcl

SpecAcl == InitAcl /\ [][NextAcl]_vars

---------------------------------------------------------------------------
(* Vocabulary of the properties *)

Status == bag["Status"]

\* the operations that end in a call of Update()
UpdateOps == {"Update", "TipAdvance", "RecvConfirmInvitation",
              "RecvConfirmTransaction", "RecvTransactionRegistered",
              "RecvFailureReason", "RegisterResult", "KernelProof"}

InEv(a, b, c) == \E i \in 1 .. Len(ev) : ev[i] = <<a, b, c>>

\* coins the transaction still holds locked or pending
OpenCoins(cs) ==
    {c \in cs : \/ c.spentTxId = TxID /\ c.status = "Outgoing"
                \/ c.createTxId = TxID /\ c.status = "Incoming"}

\* the tip is beyond the MaxHeight parameter of the transaction
TipBeyondMaxHeight ==
    tip > 0 /\ bag["MaxHeight"] # <<>> /\ tip > bag["MaxHeight"][1]

---------------------------------------------------------------------------
(* C1 *)

\* C1: whenever the Status of the transaction is Failed or Cancelled, no coin
\* spent by it is Outgoing and no coin created by it is Incoming.
C1_NoOpenCoinsAfterFailure ==
    Status \in {<<"Failed">>, <<"Cancelled">>} => OpenCoins(coins) = {}

\* a failure or cancel has rolled back coins the transaction held
C1_Witness ==
    /\ Status \in {<<"Failed">>, <<"Cancelled">>}
    /\ OpenCoins(pre.coins) # {}
    /\ HasEv(ev, "rollbackTx")
    /\ OpenCoins(coins) = {}

---------------------------------------------------------------------------
(* C2 *)

\* C2: whenever the Status is Completed, every coin the transaction spends is
\* Spent and every coin it created is Available with confirmHeight =
\* KernelProofHeight and maturity = KernelProofHeight + the maturity window.
C2_CompletedCoins ==
    Status = <<"Completed">> =>
        /\ bag["KernelProofHeight"] # <<>>
        /\ \A c \in coins :
              /\ c.spentTxId = TxID => c.status = "Spent"
              /\ c.createTxId = TxID =>
                    /\ c.status = "Available"
                    /\ c.confirmHeight = bag["KernelProofHeight"][1]
                    /\ c.maturity = bag["KernelProofHeight"][1] + MaturityStd

\* a sender's transaction has completed: an input it locked is Spent and an
\* output it created is Available
C2_Witness ==
    /\ Status = <<"Completed">>
    /\ \E c \in coins : c.spentTxId = TxID /\ c.status = "Spent"
    /\ \E c \in coins : c.createTxId = TxID /\ c.status = "Available"
    /\ OpenCoins(pre.coins) # {}

---------------------------------------------------------------------------
(* C3 *)

PeerMessages(trace) == {trace[i] : i \in {j \in 1 .. Len(trace) : trace[j][1] = "send"}}

\* C3: Update() is idempotent: an Update() that follows an Update() with no
\* change to the bag, the store or the tip in between changes neither Status
\* nor State nor any coin and sends the peer nothing but what the first sent.
C3_UpdateIdempotent ==
    [][(lastOp \in UpdateOps /\ lastOp' = "Update") =>
          /\ bag'["Status"] = bag["Status"]
          /\ bag'["State"] = bag["State"]
          /\ coins' = coins
          /\ PeerMessages(ev') \subseteq PeerMessages(ev)]_vars

---------------------------------------------------------------------------
(* C4 *)

\* C4: whenever a sender hands a transaction that is not a self transaction to
\* register_tx and the peer's protocol version is >= 1, the
\* PaymentConfirmation in the bag is a valid signature of the peer over
\* (KernelID, Amount, the sender's key).
C4_RegisteredOnlyWithPaymentConfirmation ==
    (/\ HasEv(ev, "register_tx")
     /\ Val(Cur, "IsSender") /\ ~IsSelfTx(Cur)
     /\ get_PeerVersion(Cur) >= 1)
    => PaymentConfirmationOk(Cur)

---------------------------------------------------------------------------
(* C5 *)

\* C5: when the sender's check of the payment confirmation fails and the peer's
\* version is >= 1, Status is Failed and the coins are rolled back when that
\* Update() returns; with a peer of version 0 the failed check is tolerated
\* and the Update() goes on to finalize the signature.
C5_PaymentCheckFailureIsFatal ==
    HasEv(ev, "paymentCheckFailed") =>
        IF get_PeerVersion(Cur) >= 1
        THEN /\ InEv("OnFailed", "InvalidPeerSignature", "false")
             /\ Status = <<"Failed">>
             /\ OpenCoins(coins) = {}
        ELSE /\ ~InEv("OnFailed", "InvalidPeerSignature", "false")
             /\ HasEv(ev, "FinalizeSignature")

---------------------------------------------------------------------------
(* C6 *)

---------------------------------------------------------------------------
(* C7 *)

\* C7: whenever the assembled transaction fails validation, the transaction
\* fails with InvalidTransaction, is not handed to register_tx, and
\* FailureReason = InvalidTransaction is sent to the peer.
C7_InvalidTransactionNotified ==
    HasEv(ev, "transactionInvalid") =>
        /\ InEv("OnFailed", "InvalidTransaction", "true")
        /\ ~HasEv(ev, "register_tx")
        /\ InEv("send", "FailureReason", "InvalidTransaction")

---------------------------------------------------------------------------
(* C8 *)

---------------------------------------------------------------------------
(* C9 *)

NotRegistered == bag["TransactionRegistered"] # <<TRUE>>

---------------------------------------------------------------------------
(* C10 *)

\* C10: an Update() called with a FailureReason in the bag and Status
\* InProgress fails the transaction with that reason and does nothing else:
\* it sets Status (Cancelled for the reason Cancelled, Failed otherwise),
\* rolls back, calls on_tx_completed, and sends the peer nothing.
C10_ExternalFailure ==
    (/\ lastOp \in UpdateOps
     /\ pre.status = <<"InProgress">>
     /\ bag["FailureReason"] # <<>>)
    => LET reason == bag["FailureReason"][1]
           status == IF reason = "Cancelled" THEN "Cancelled" ELSE "Failed"
       IN  /\ ev = << <<"OnFailed", reason, "false">>, <<"status", status, "">>,
                      <<"rollbackTx", "", "">>, <<"on_tx_completed", "", "">> >>
           /\ Status = <<status>>
           /\ bag["State"] = IF pre.state = "Initial" THEN <<>> ELSE <<pre.state>>
           /\ OpenCoins(coins) = {}

\* the peer's failure has reached a sender that had locked its inputs
C10_Witness ==
    /\ lastOp = "RecvFailureReason"
    /\ pre.status = <<"InProgress">>
    /\ OpenCoins(pre.coins) # {}
    /\ Status \in {<<"Failed">>, <<"Cancelled">>}

---------------------------------------------------------------------------
(* C11 *)

\* C11: Cancel() on a Pending transaction deletes its record and does nothing
\* else (no Status write, no rollback, no message); on any other transaction
\* it leaves Status Cancelled, rolls the coins back, and sends FailureReason =
\* Cancelled to the peer exactly when the Status before was Pending or
\* InProgress.
C11_Cancel ==
    lastOp = "Cancel" =>
        IF pre.status = <<"Pending">>
        THEN /\ bag = EmptyBag
             /\ ev = << <<"deleteTx", "", "">> >>
             /\ coins = pre.coins
        ELSE /\ Status = <<"Cancelled">>
             /\ ~HasEv(ev, "deleteTx")
             /\ HasEv(ev, "rollbackTx")
             /\ OpenCoins(coins) = {}
             /\ InEv("send", "FailureReason", "Cancelled")
                   <=> pre.status \in {<<"Pending">>, <<"InProgress">>}
             /\ Len(ev) = IF pre.status = <<"InProgress">> THEN 4 ELSE 3

\* a transaction in progress, with its inputs locked, is cancelled: the peer
\* is told and the coins are rolled back
C11_Witness ==
    /\ lastOp = "Cancel"
    /\ pre.status = <<"InProgress">>
    /\ OpenCoins(pre.coins) # {}
    /\ InEv("send", "FailureReason", "Cancelled")
    /\ Status = <<"Cancelled">>
    /\ OpenCoins(coins) = {}

---------------------------------------------------------------------------
(* C12 *)

\* C12: Cancel() is idempotent: a Cancel() that directly follows a Cancel()
\* leaves the parameter bag (the record and its Status) and the coins as the
\* first call left them and sends the peer nothing; a Pending transaction
\* that was cancelled stays without any parameter.
C12_CancelIdempotent ==
    [][(lastOp = "Cancel" /\ lastOp' = "Cancel") =>
          /\ bag' = bag
          /\ coins' = coins
          /\ PeerMessages(ev') = {}]_vars

---------------------------------------------------------------------------
(* C13 *)

\* C13: when the answer to register_tx or confirm_kernel arrives for a
\* transaction whose Status is Cancelled, the Update() it triggers leaves
\* Status Cancelled, changes no coin, and sends no peer message and no
\* register_tx or confirm_kernel request.
C13_CallbackAfterCancelDiscarded ==
    (lastOp \in {"RegisterResult", "KernelProof"} /\ pre.status = <<"Cancelled">>)
    => /\ Status = <<"Cancelled">>
       /\ coins = pre.coins
       /\ ~HasEv(ev, "send")
       /\ ~HasEv(ev, "register_tx")
       /\ ~HasEv(ev, "confirm_kernel")

---------------------------------------------------------------------------
(* C14 *)

\* the Status in effect just before the i-th step of the last operation
StatusBefore(i) ==
    LET js == {j \in 1 .. i - 1 : ev[j][1] = "status"}
    IN  IF js = {} THEN pre.status
        ELSE <<ev[CHOOSE j \in js : \A k \in js : k <= j][2]>>

\* C14: every run of OnFailed(reason, notify) does, in this order: send
\* FailureReason = reason to the peer if notify is set and the Status is
\* still Pending or InProgress (and not otherwise), write Status Cancelled
\* for the reason Cancelled and Failed for any other, call rollbackTx, call
\* on_tx_completed; a failure that came from the peer is not sent back.
C14_OnFailedOrder ==
    /\ \A i \in 1 .. Len(ev) :
          ev[i][1] = "OnFailed" =>
             LET reason == ev[i][2]
                 sends == /\ ev[i][3] = "true"
                          /\ StatusBefore(i) \in {<<"Pending">>, <<"InProgress">>}
                 k == IF sends THEN i + 1 ELSE i
             IN  /\ Len(ev) >= k + 3
                 /\ sends => ev[i + 1] = <<"send", "FailureReason", reason>>
                 /\ ev[k + 1] = <<"status", IF reason = "Cancelled"
                                            THEN "Cancelled" ELSE "Failed", "">>
                 /\ ev[k + 2] = <<"rollbackTx", "", "">>
                 /\ ev[k + 3] = <<"on_tx_completed", "", "">>
    /\ (/\ lastOp \in UpdateOps
        /\ pre.status = <<"InProgress">>
        /\ bag["FailureReason"] # <<>>) => ~Sent(ev, "FailureReason")

\* an Update() has failed a transaction that held coins and has told the peer
\* before it wrote the Status
C14_Witness ==
    /\ lastOp \in UpdateOps
    /\ OpenCoins(pre.coins) # {}
    /\ \E i \in 1 .. Len(ev) :
          /\ ev[i][1] = "OnFailed" /\ ev[i][3] = "true"
          /\ Len(ev) >= i + 4
          /\ ev[i + 1][1] = "send" /\ ev[i + 1][2] = "FailureReason"
          /\ ev[i + 2][1] = "status"
          /\ ev[i + 4] = <<"on_tx_completed", "", "">>

---------------------------------------------------------------------------
(* C15 *)

\* how many steps of the kind a the last operation made
Count(a) == Cardinality({i \in 1 .. Len(ev) : ev[i][1] = a})

\* C15: every Update() writes the State at most once (advances at most one
\* edge) and sends at most one message to the peer.
C15_OneEdgeOneMessage ==
    lastOp \in UpdateOps => Count("state") <= 1 /\ Count("send") <= 1

\* the values the last operation wrote to the State, in order
StatesWritten ==
    SelectSeq(ev, LAMBDA e : e[1] = "state")

\* C15 amended: every Update() sends at most one message to the peer and
\* writes the State at most twice; it writes it twice only when an initiator
\* in State Invitation confirms the transaction and registers it in the same
\* call, passing through PeerConfirmation to Registration.
C15_OneMessageTwoEdges ==
    lastOp \in UpdateOps =>
        /\ Count("send") <= 1
        /\ Count("state") <= 2
        /\ Count("state") = 2 =>
              /\ pre.state = "Invitation"
              /\ StatesWritten = << <<"state", "PeerConfirmation", "">>,
                                    <<"state", "Registration", "">> >>
              /\ HasEv(ev, "register_tx")

\* an initiator has sent its ConfirmTransaction and registered the
\* transaction in one Update()
C15_Witness ==
    /\ lastOp \in UpdateOps
    /\ Count("send") = 1
    /\ Count("state") = 2
    /\ bag["State"] = <<"Registration">>

---------------------------------------------------------------------------
(* C16 *)

\* the first step of a sender whose Available coins do not cover Amount + Fee:
\* selectCoins has nothing to return
SelectsNothing ==
    /\ lastOp \in UpdateOps
    /\ pre.status # <<>>
    /\ pre.state = "Initial"
    /\ bag["IsSender"] = <<TRUE>>
    /\ selectCoins(pre.coins, TxAmount + TxFee) = {{}}

\* C16: when selectCoins returns no coin for Amount + Fee, the sender's
\* Update() fails the transaction with NoInputs and leaves every coin of the
\* store as it was: none is locked, created or changed.
C16_NoInputs ==
    SelectsNothing =>
        /\ InEv("OnFailed", "NoInputs", BoolStr(~bag["IsInitiator"][1]))
        /\ Status = <<"Failed">>
        /\ coins = pre.coins
        /\ \A c \in coins : c.spentTxId # TxID /\ c.createTxId # TxID

\* a sender with too little has failed with NoInputs on its first Update()
C16_Witness ==
    /\ SelectsNothing
    /\ pre.status = <<"Pending">>
    /\ pre.coins = PoorCoins
    /\ HasEv(ev, "OnFailed")
    /\ Status = <<"Failed">>

---------------------------------------------------------------------------
(* C17 *)

\* identifiers of the coins the transaction spends or has created
TxCoinIds(cs) == {c.id : c \in {x \in cs : x.spentTxId = TxID \/ x.createTxId = TxID}}

\* C17: inputs are selected and outputs created only by an Update() that
\* starts in State Initial with no coin of the transaction in the store, and
\* that Update() leaves State Initial for good; from then on BlindingExcess
\* and Offset are in the bag, and every later Update(), which works from the
\* bag and the store alone, selects no input and creates no output.
C17_InputsSelectedOnce ==
    /\ HasEv(ev, "selectCoins") =>
          /\ lastOp \in UpdateOps
          /\ pre.state = "Initial"
          /\ TxCoinIds(pre.coins) = {}
          /\ bag["State"] # <<>>
    /\ bag["State"] = <<>> => TxCoinIds(coins) = {}
    /\ bag["State"] # <<>> => bag["BlindingExcess"] # <<>> /\ bag["Offset"] # <<>>
    /\ (lastOp \in UpdateOps /\ pre.state # "Initial") =>
          /\ ~HasEv(ev, "selectCoins")
          /\ TxCoinIds(coins) \subseteq TxCoinIds(pre.coins)

\* a sender that had locked its inputs and reached State Invitation has made
\* a further Update() that kept them locked and selected nothing
C17_Witness ==
    /\ lastOp \in UpdateOps
    /\ pre.state = "Invitation"
    /\ bag["IsSender"] = <<TRUE>>
    /\ \E c \in pre.coins : c.spentTxId = TxID /\ c.status = "Outgoing"
    /\ \E c \in coins : c.spentTxId = TxID /\ c.status = "Outgoing"
    /\ ~HasEv(ev, "selectCoins")

---------------------------------------------------------------------------
(* C18 *)

\* the kernel proof has landed: KernelProofHeight > 0 is in the bag
ProofLanded == bag["KernelProofHeight"] # <<>> /\ bag["KernelProofHeight"][1] > 0

\* C18: a coin the transaction spends is Outgoing or Spent and a coin it
\* created is Incoming or Available; it is Spent, or Available, only once
\* KernelProofHeight > 0 is in the bag, the Available one with confirmHeight =
\* KernelProofHeight and maturity = KernelProofHeight + the maturity window;
\* and the operation that turns an Outgoing or Incoming coin of the
\* transaction into Spent or Available is an Update() that saves the coins
\* with the proof in the bag.
C18_CoinsConfirmedOnlyByProof ==
    /\ \A c \in coins :
          /\ c.spentTxId = TxID =>
                /\ c.status \in {"Outgoing", "Spent"}
                /\ c.status = "Spent" => ProofLanded
          /\ c.createTxId = TxID =>
                /\ c.status \in {"Incoming", "Available"}
                /\ c.status = "Available" =>
                      /\ ProofLanded
                      /\ c.confirmHeight = bag["KernelProofHeight"][1]
                      /\ c.maturity = bag["KernelProofHeight"][1] + MaturityStd
    /\ \A c \in coins, d \in OpenCoins(pre.coins) :
          (c.id = d.id /\ c.status \in {"Spent", "Available"}
              /\ (c.spentTxId = TxID \/ c.createTxId = TxID))
          => (lastOp \in UpdateOps /\ HasEv(ev, "save") /\ ProofLanded)

\* the kernel proof has arrived for a registered transaction that held an
\* Outgoing input and an Incoming output: the Update() has made them Spent
\* and Available
C18_Witness ==
    /\ lastOp = "KernelProof"
    /\ pre.status = <<"Registered">>
    /\ \E d \in pre.coins, c \in coins :
          d.spentTxId = TxID /\ d.status = "Outgoing" /\ c.id = d.id /\ c.status = "Spent"
    /\ \E d \in pre.coins, c \in coins :
          d.createTxId = TxID /\ d.status = "Incoming" /\ c.id = d.id
             /\ c.status = "Available"

---------------------------------------------------------------------------
(* C19 *)

\* C19: a Solution that arrives from a peer that is not logged in is ignored:
\* the most recent result stays as it was and no onFound callback is called.
C19_SolutionNeedsLogin ==
    [][(sop' = "Solution" /\ srv.connections[sev'[1][2]] = "NotLoggedIn")
       => /\ srv'.recentResult = srv.recentResult
          /\ ~HasEv(sev', "onFound")]_vars

---------------------------------------------------------------------------
(* C20 *)

\* C20: the onFound callback of every job pushed with new_job is called at
\* most once, however many Solution messages the peers deliver (found counts
\* the calls of the callback of the latest new_job, the only one the server
\* still holds).
C20_OnFoundOncePerJob ==
    found <= 1

---------------------------------------------------------------------------
(* C21 *)

\* C21: a solution_result call that answers the Solution of a peer writes
\* its result frame to that peer and to no other.
C21_ResultToOriginator ==
    (sop = "SolutionResult" /\ sev[1][3] # NoPeer) =>
        \A i \in 1 .. Len(sev) : sev[i][1] = "frame" => sev[i][2] = sev[1][3]

---------------------------------------------------------------------------
(* C22 *)

\* the frames a call wrote to peer p, and those among them that carry msg
FramesTo(trace, p) ==
    {i \in 1 .. Len(trace) : trace[i][1] = "frame" /\ trace[i][2] = p}

FramesWith(trace, p, msg) == {i \in FramesTo(trace, p) : trace[i][3] = msg}

\* every entry of the connection map holds a Connection
NoNullEntry(server) == \A a \in Addrs : server.connections[a] # "null"

\* C22: a new_job call on a connection map whose entries all hold a
\* Connection replaces the cached job, writes exactly one Job frame to every
\* LoggedIn peer whose stream takes it and none to any other peer, removes
\* the LoggedIn peers whose send failed and keeps every other peer as it was;
\* a repeated job is broadcast like a new one.
C22_Broadcast ==
    [][(sop' = "NewJob" /\ NoNullEntry(srv)) =>
          LET id == sev'[1][2]
          IN  /\ srv'.recentJob = [id |-> id, msg |-> id]
              /\ \A p \in Peers :
                    LET loggedIn == srv.connections[p] = "LoggedIn"
                    IN  /\ Cardinality(FramesWith(sev', p, id)) =
                              IF loggedIn /\ p \notin broken THEN 1 ELSE 0
                        /\ FramesTo(sev', p) = FramesWith(sev', p, id)
                        /\ srv'.connections[p] =
                              IF loggedIn /\ p \in broken THEN "none"
                              ELSE srv.connections[p]]_vars

\* a broadcast has reached one peer and passed over another that is connected
\* but not logged in
C22_Witness ==
    /\ sop = "NewJob"
    /\ \E p, q \in Peers :
          /\ FramesTo(sev, p) # {}
          /\ srv.connections[q] = "NotLoggedIn"

---------------------------------------------------------------------------
(* C23 *)

\* C23: a peer's connection gets LoggedIn only in a Login of that peer whose
\* api_key passes the ACL check, and that call writes the cached job frame
\* (when there is one) to the peer and nothing else; a Login whose key fails
\* the check writes login_failed to the peer and shuts its stream down (when
\* the stream still takes writes) and the peer's connection is gone after it.
C23_Login ==
    [][\A p \in Peers :
          /\ (srv'.connections[p] = "LoggedIn" /\ srv.connections[p] # "LoggedIn")
             => /\ sop' = "Login"
                /\ sev'[1] = <<"recv", p, "Login">>
                /\ check(SCur, sev'[2][3])
                /\ FramesTo(sev', p) = FramesWith(sev', p, srv.recentJob.msg)
                /\ Cardinality(FramesTo(sev', p)) = 1
          /\ (sop' = "Login" /\ sev'[1][2] = p /\ ~check(SCur, sev'[2][3]))
             => /\ srv'.connections[p] = "none"
                /\ p \notin broken =>
                      /\ Cardinality(FramesTo(sev', p)) = 1
                      /\ \E i \in 1 .. Len(sev') - 1 :
                            /\ sev'[i] = <<"frame", p, "login_failed">>
                            /\ sev'[i + 1] = <<"shutdown", p, "">>]_vars

\* a Login with a wrong key has just been refused while another peer, which
\* logged in before, is LoggedIn and a job is cached
C23_Witness ==
    /\ sop = "Login"
    /\ srv.recentJob.msg # ""
    /\ \E p, q \in Peers :
          /\ <<"frame", p, "login_failed">> \in {sev[i] : i \in 1 .. Len(sev)}
          /\ srv.connections[q] = "LoggedIn"

---------------------------------------------------------------------------
(* C24 *)

\* the keys somebody may present
AllKeys == Keys \cup Lines \cup {trim(l) : l \in Lines}

\* C24 as stated: with a key file configured, a key passes check only if it
\* was a line of the file when the list was last read.
C24_KeysAreLines ==
    srv.acl.enabled => \A k \in AllKeys : check(SCur, k) => k \in loaded

\* C24: with a key file configured, a key passes check only if it is a line
\* of the file, without the blanks around it, as the file was at the last
\* refresh that found a later modification time; a refresh that finds none
\* leaves the key set as it is, and the key set only ever changes to the
\* whole set of keys of the file.
C24_KeysAreTrimmedLines ==
    /\ [](srv.acl.enabled =>
             \A k \in AllKeys :
                 check(SCur, k) => k \in {trim(l) : l \in loaded})
    /\ [][/\ ~Reloads(srv.acl, file) => srv'.acl.keys = srv.acl.keys
          /\ srv'.acl.keys \in
                {srv.acl.keys,
                 ReadKeys(IF file.readable THEN file.lines ELSE <<>>, {})}]_vars

\* the refresh timer has reloaded a file in which the good key stands with
\* blanks around it
C24_Witness ==
    /\ sop = "RefreshAcl"
    /\ srv.acl.lastModified = 2
    /\ check(SCur, GoodKey)
    /\ GoodKey \notin loaded
    /\ Pad(GoodKey, 1) \in loaded

---------------------------------------------------------------------------
(* C25 *)

\* C25 as stated: a key shorter than 8 characters never passes check, in
\* every configuration of the server.
C25_ShortKeysNeverPass ==
    \A k \in AllKeys : Len(k) < MinKeyLen => ~check(SCur, k)

\* C25: when a key file is configured, a key shorter than 8 characters never
\* passes check.
C25_ShortKeysNeverPassAcl ==
    srv.acl.enabled => \A k \in AllKeys : Len(k) < MinKeyLen => ~check(SCur, k)

\* the refresh timer has read the list from a file that holds a short key,
\* bare and padded to the length of a key
C25_Witness ==
    /\ sop = "RefreshAcl"
    /\ srv.acl.enabled
    /\ srv.acl.lastModified = 2
    /\ ShortKey \in loaded
    /\ Pad(ShortKey, 2) \in loaded

---------------------------------------------------------------------------
(* C26 *)

\* the peers whose transport fails in the call that leads to the next state:
\* the peer of a read error or malformed line, the LoggedIn peers whose
\* stream refuses the job of a broadcast, the peer whose stream refuses the
\* answer to its Login
Failing ==
    CASE sop' = "PeerError" -> {sev'[1][2]}
      [] sop' = "NewJob" ->
            {p \in Peers : srv.connections[p] = "LoggedIn" /\ p \in broken}
      [] sop' = "Login" -> {sev'[1][2]} \cap broken
      [] OTHER -> {}

\* C26: a call in which the transport of some peers fails removes those
\* peers from the connection map and leaves every other peer's connection
\* and login state, the listener and the timers as they were.
C26_FailureIsolated ==
    [][Failing # {} =>
          /\ \A p \in Failing : srv'.connections[p] = "none"
          /\ \A q \in Peers \ Failing : srv'.connections[q] = srv.connections[q]
          /\ srv'.server = srv.server
          /\ srv'.timers = srv.timers]_vars

\* a peer has just been dropped for a read error while the server listens
\* and another peer stays logged in
C26_Witness ==
    /\ sop = "PeerError"
    /\ srv.server = "listening"
    /\ \E p, q \in Peers :
          /\ sev[1] = <<"-peer", p, "">>
          /\ srv.connections[p] = "none"
          /\ srv.connections[q] = "LoggedIn"

---------------------------------------------------------------------------
(* C27 *)

\* C27: a start_server that cannot create the listen socket, and an accept
\* that reports an error, set the restart timer to 1000 ms, every time; and
\* when the timer is set the server gets to listen, if creating the socket
\* does not fail for ever.
C27_RestartUntilListening ==
    /\ [][sop' \in {"StartServerFails", "AcceptError"} =>
             srv'.timers.restart = <<SERVER_RESTART_INTERVAL>>]_vars
    /\ (srv.timers.restart # <<>>) ~>
          (sop = "StartServerOk" /\ srv.server = "listening")

\* start_server has failed again after an accept error and the timer is set
\* once more
C27_Witness ==
    /\ sop = "StartServerFails"
    /\ srv.server = "listening"
    /\ srv.timers.restart = <<SERVER_RESTART_INTERVAL>>

---------------------------------------------------------------------------
(* C28 *)

\* C28: when start_server has run, the connection map holds no connection:
\* no peer and no LoggedIn flag from before the restart is left.
C28_RestartClearsPeers ==
    [][sop' \in {"StartServerOk", "StartServerFails"} =>
          \A p \in Peers : srv'.connections[p] = "none"]_vars

---------------------------------------------------------------------------
(* C29 *)

\* the call wrote State KernelConfirmation, then Status Registered, then
\* asked the gateway for the kernel proof
AsksForProof ==
    \E i \in 1 .. Len(ev) - 2 :
        /\ ev[i] = <<"state", "KernelConfirmation", "">>
        /\ ev[i + 1] = <<"status", "Registered", "">>
        /\ ev[i + 2] = <<"confirm_kernel", "", "">>

\* C29: an Update() that finds TransactionRegistered = true and no
\* KernelProofHeight in the bag sets State = KernelConfirmation and Status =
\* Registered and calls gateway.confirm_kernel; the State stays, and so does
\* the Status unless the same Update() finds the transaction expired.
C29_RegisteredAsksForProof ==
    (/\ lastOp \in UpdateOps
     /\ bag["TransactionRegistered"] = <<TRUE>>
     /\ GetOr(Cur, "KernelProofHeight", 0) = 0)
    => /\ AsksForProof
       /\ bag["State"] = <<"KernelConfirmation">>
       /\ Status = <<"Registered">> \/ InEv("expired", "", "")

\* the node has just confirmed the registration of a transaction that was
\* in State Registration, and the proof is asked for
C29_Witness ==
    /\ lastOp = "RegisterResult"
    /\ pre.state = "Registration"
    /\ bag["TransactionRegistered"] = <<TRUE>>
    /\ AsksForProof
    /\ Status = <<"Registered">>

---------------------------------------------------------------------------
(* C30 *)

\* the coins the transaction has locked as inputs, its change output, and
\* the messages the call sent to the peer
TxInputs == {c \in coins : c.spentTxId = TxID /\ c.status = "Outgoing"}

ChangeOutputs ==
    {c \in coins : c.createTxId = TxID /\ c.isChange /\ c.status = "Incoming"}

Sends == SelectSeq(ev, LAMBDA e : e[1] = "send")

\* the first Update() of a transaction we initiate as the sender to a peer,
\* when the selection of inputs has not failed
FirstUpdateOfInitiatingSender ==
    /\ lastOp \in UpdateOps
    /\ pre.status = <<"Pending">>
    /\ pre.state = "Initial"
    /\ bag["IsInitiator"] = <<TRUE>>
    /\ bag["IsSender"] = <<TRUE>>
    /\ ~IsSelfTx(Cur)
    /\ ~HasEv(ev, "exception")

\* C30: the first Update() of the initiating sender, from State Initial,
\* locks inputs that cover amount and fee, creates the change output when
\* there is change, creates the kernel (BlindingExcess and MyNonce), sends
\* the peer exactly one message, the Invitation with amount, fee, min and max
\* height, IsSender negated, the protocol version, the public excess and the
\* public nonce, and then sets State = Invitation; the Status is InProgress.
C30_InitiatorInvites ==
    FirstUpdateOfInitiatingSender =>
        /\ InEv("selectCoins", "", "")
        /\ {c.id : c \in TxInputs} = bag["Inputs"][1]
        /\ SumValues(TxInputs) = TxAmount + TxFee + bag["Change"][1]
        /\ IF bag["Change"][1] = 0 THEN ChangeOutputs = {}
           ELSE /\ Cardinality(ChangeOutputs) = 1
                /\ \A c \in ChangeOutputs : c.value = bag["Change"][1]
        /\ bag["BlindingExcess"] # <<>> /\ bag["MyNonce"] # <<>>
        /\ Sends = <<<<"send", "Invitation",
                       [Amount |-> TxAmount,
                        Fee |-> TxFee,
                        MinHeight |-> 0,
                        MaxHeight |-> TxMaxHeight,
                        IsSender |-> FALSE,
                        PeerProtoVersion |-> s_ProtoVersion,
                        PeerPublicExcess |-> GetPublicExcess(Cur),
                        PeerPublicNonce |-> GetPublicNonce(Cur)]>>>>
        /\ ev[Len(ev)] = <<"state", "Invitation", "">>
        /\ bag["State"] = <<"Invitation">>
        /\ Status = <<"InProgress">>

\* the initiating sender has made its first Update(), with change to take
C30_Witness ==
    /\ FirstUpdateOfInitiatingSender
    /\ bag["Change"] # <<>> /\ bag["Change"][1] > 0
    /\ Sent(ev, "Invitation")

---------------------------------------------------------------------------
(* C31 *)
\* an Update() of an invited party that starts in State Initial with the
\* peer's public excess and nonce, without the peer's signature, and does not
\* fail selecting its inputs
AnswersInvitation ==
    /\ lastOp \in UpdateOps
    /\ pre.state = "Initial"
    /\ bag["IsInitiator"] = <<FALSE>>
    /\ bag["PeerPublicExcess"] # <<>> /\ bag["PeerPublicNonce"] # <<>>
    /\ bag["PeerSignature"] = <<>>
    /\ ~HasEv(ev, "exception")

ConfirmInvitationsSent ==
    Cardinality({i \in 1 .. Len(ev) :
                    ev[i][1] = "send" /\ ev[i][2] = "ConfirmInvitation"})

\* the answer itself: one ConfirmInvitation, then the new flow or the old one
C31_Answer ==
    AnswersInvitation =>
        /\ ConfirmInvitationsSent = 1
        /\ IF bag["PeerProtoVersion"] # <<>>
           THEN /\ bag["TransactionRegistered"] = <<TRUE>>
                /\ bag["State"] = <<"KernelConfirmation">>
                /\ HasEv(ev, "confirm_kernel")
           ELSE /\ bag["State"] = <<"InvitationConfirmation">>
                /\ ~HasEv(ev, "confirm_kernel")

\* an invited party of the old flow (no PeerProtoVersion) asks for the kernel
\* proof in this call, and has not asked before
OldFlowFirstProofRequest ==
    /\ lastOp \in UpdateOps
    /\ bag["IsInitiator"] = <<FALSE>>
    /\ bag["PeerProtoVersion"] = <<>>
    /\ pre.state # "KernelConfirmation"
    /\ HasEv(ev, "confirm_kernel")

SelfTx == bag["PeerID"] # <<>> /\ bag["PeerID"][1] \in OwnAddresses

\* the outputs of the transaction in the store that are, or are not, change
TxOutputs(bChange) ==
    {c \in coins : c.createTxId = TxID /\ c.status = "Incoming"
                                      /\ c.isChange = bChange}

\* C32: an Update() of a self-transaction sends no Invitation,
\* ConfirmInvitation or ConfirmTransaction and runs no payment-confirmation
\* check; the Update() that starts in State Initial and does not fail
\* selecting its inputs builds and registers the transaction at once, ending
\* in State Registration, and, unless the same call expires and rolls back,
\* leaves in the store one receiver output for each amount of the list and,
\* when the change is not zero, the change output.
C32_SelfTxSkipsPeer ==
    (SelfTx /\ lastOp \in UpdateOps) =>
        /\ \A kind \in {"Invitation", "ConfirmInvitation", "ConfirmTransaction"} :
              ~Sent(ev, kind)
        /\ ~HasEv(ev, "paymentCheckFailed")
        /\ (pre.state = "Initial" /\ ~HasEv(ev, "exception")) =>
              /\ HasEv(ev, "selectCoins") /\ HasEv(ev, "register_tx")
              /\ bag["State"] = <<"Registration">>
              /\ ~HasEv(ev, "rollbackTx") =>
                    /\ Cardinality(TxOutputs(FALSE)) = Len(GetAmountList(Cur))
                    /\ {c.value : c \in TxOutputs(FALSE)} =
                          {GetAmountList(Cur)[i] :
                              i \in 1 .. Len(GetAmountList(Cur))}
                    /\ IF bag["Change"][1] = 0 THEN TxOutputs(TRUE) = {}
                       ELSE \E c \in TxOutputs(TRUE) :
                               /\ TxOutputs(TRUE) = {c}
                               /\ c.value = bag["Change"][1]

\* the first Update() of a self-transaction with change has registered it
C32_Witness ==
    /\ SelfTx /\ lastOp \in UpdateOps /\ pre.state = "Initial"
    /\ HasEv(ev, "register_tx")
    /\ TxOutputs(FALSE) # {} /\ TxOutputs(TRUE) # {}

(* C33 *)
\* the Invitation messages of a call's trace
Invitations(trace) ==
    {i \in 1 .. Len(trace) : trace[i][1] = "send" /\ trace[i][2] = "Invitation"}

\* C33: once MyNonce or BlindingExcess is in the bag no operation writes it
\* again: it keeps its value; and the public nonce and the public excess a
\* message carries are the ones derived from the values in the bag.
C33_NonceAndExcessStoredOnce ==
    [][/\ \A p \in {"MyNonce", "BlindingExcess"} :
             bag[p] # <<>> => bag'[p] = bag[p]
       /\ \A i \in Invitations(ev') :
             /\ bag'["BlindingExcess"] # <<>> /\ bag'["MyNonce"] # <<>>
             /\ ev'[i][3].PeerPublicExcess =
                    <<"G", <<"-", bag'["BlindingExcess"][1]>>>>
             /\ ev'[i][3].PeerPublicNonce =
                    <<"G", <<"kdf", bag'["MyNonce"][1]>>>>]_vars

\* an Update() has run on a transaction that had stored its nonce and excess
\* in an earlier call
C33_Witness ==
    /\ lastOp \in UpdateOps
    /\ pre.state \in {"Invitation", "Registration"}
    /\ bag["MyNonce"] = <<<<"random", 1>>>>
    /\ bag["BlindingExcess"] = <<<<"KerW", FirstKid + 2>>>>

(* C34 *)
\* C34: after an Update() that selected inputs, the Change in the bag is the
\* sum of the selected coins less the sum of the amount list and the fee,
\* with no wrap-around (the selected coins cover amount + fee); the store
\* holds a change output, of that value, if and only if the Change is not
\* zero, so that inputs = amount + fee + change. (The coins are looked at
\* when the same call did not roll them back.)
C34_ChangeIsWhatIsLeft ==
    (lastOp \in UpdateOps /\ HasEv(ev, "selectCoins")) =>
        LET need == GetAmount(Cur) + bag["Fee"][1]
            change == bag["Change"][1]
        IN  /\ change + need <= SumValues({c \in pre.coins : c.status = "Available"})
            /\ ~HasEv(ev, "rollbackTx") =>
                  /\ SumValues(TxInputs) >= need
                  /\ change = SumValues(TxInputs) - need
                  /\ SumValues(TxInputs) = need + change
                  /\ (TxOutputs(TRUE) # {}) <=> (change # 0)
                  /\ Cardinality(TxOutputs(TRUE)) <= 1
                  /\ \A c \in TxOutputs(TRUE) : c.value = change

\* a split into two outputs has selected more than it needs and keeps change
C34_Witness ==
    /\ lastOp \in UpdateOps /\ HasEv(ev, "selectCoins")
    /\ ~HasEv(ev, "rollbackTx")
    /\ bag["AmountList"] = <<SplitAmounts>>
    /\ bag["Change"] = <<2>>
    /\ TxOutputs(TRUE) # {}

(* C35 *)
\* C35: an Update() on a transaction whose Status is Completed or Failed
\* leaves the Status and every coin as they are and calls neither
\* register_tx nor confirm_kernel.
C35_TerminalStatusAbsorbing ==
    [][(Status \in {<<"Completed">>, <<"Failed">>} /\ lastOp' \in UpdateOps) =>
          /\ bag'["Status"] = Status
          /\ coins' = coins
          /\ ~HasEv(ev', "register_tx")
          /\ ~HasEv(ev', "confirm_kernel")]_vars

(* C36 *)
\* how often a call's trace holds the event a
CountIn(trace, a) == Cardinality({i \in 1 .. Len(trace) : trace[i][1] = a})

\* C36: on_tx_completed is invoked at most once for the transaction: no call
\* invokes it twice and no call invokes it after the call before has; and a
\* single Update() runs OnFailed at most once.
C36_CompletedOnce ==
    [][/\ CountIn(ev', "on_tx_completed") <= 1
       /\ HasEv(ev, "on_tx_completed") => ~HasEv(ev', "on_tx_completed")
       /\ lastOp' \in UpdateOps => CountIn(ev', "OnFailed") <= 1]_vars

(* C37 *)
\* C37: an Update() that finds State = Registration and no
\* TransactionRegistered in the bag (a tip change, a repeated Update) does
\* not call register_tx again.
C37_RegisteredOnce ==
    [][(/\ bag["State"] = <<"Registration">>
        /\ bag["TransactionRegistered"] = <<>>
        /\ lastOp' \in {"Update", "TipAdvance"})
       => ~HasEv(ev', "register_tx")]_vars

(* C38 *)

\* C38: a Solution that arrives while no job is current (before the first
\* new_job or after stop_current) or that names another job than the current
\* one calls no onFound callback and leaves the most recent result as it
\* was.
C38_SolutionNeedsCurrentJob ==
    [][(/\ sop' = "Solution"
        /\ \/ srv.recentJob.id = ""
           \/ srv'.recentResult.id # srv.recentJob.id)
       => /\ ~HasEv(sev', "onFound")
          /\ srv'.recentResult = srv.recentResult]_vars

---------------------------------------------------------------------------
(* C39 *)

\* C39: every entry of the connection map holds a Connection, and no call
\* has brought the server down by using one that is missing.
C39_EveryEntryLive ==
    NoNullEntry(srv) /\ ~srv.crashed

---------------------------------------------------------------------------
(* C40 *)

\* the Job frames a call wrote: the frames that carry the message of a job
JobFrames(trace) ==
    {i \in 1 .. Len(trace) : trace[i][1] = "frame" /\ trace[i][3] \in JobIds}

\* C40: while no job is current (after stop_current and until the next
\* new_job) no call but new_job writes a Job frame to a peer.
C40_NoJobFrameAfterStop ==
    [][(srv.recentJob.id = "" /\ sop' # "NewJob") => JobFrames(sev') = {}]_vars
====
